---- MODULE Spec2Model ----
(***************************************************************************)
(* Model of the history aggregation engine of recap: the hotspot (churn)   *)
(* analyzer of src/hotspots/mod.rs, the who-knows (expertise) analyzer of  *)
(* src/who_knows and the bus-factor (ownership) analyzer of                *)
(* src/bus_factor.rs.                                                      *)
(*                                                                         *)
(* One behaviour is one invocation of the tool, which runs exactly one     *)
(* analyzer (variable analyzer).  The iteration order of a std HashMap or  *)
(* HashSet is seeded at random per instance: wherever the code iterates    *)
(* one, the model chooses the order nondeterministically (Orders).         *)
(*                                                                         *)
(* Text is modelled as sequences of one-character strings, so that trim,   *)
(* starts_with, ends_with, to_lowercase, Path::parent and Path::extension  *)
(* are computed, not assumed.  Option<T> is a sequence of length <= 1.     *)
(* f64 percentages are exact rationals [num, den]; den = 0 is NaN.         *)
(***************************************************************************)
EXTENDS Integers, Sequences, FiniteSets, TLC

(***************************************************************************)
(* Bounds of the model.                                                    *)
(***************************************************************************)
MaxEvents == 4      \* numstat records per hotspot run
MaxLogLines == 3    \* git log lines per who-knows run
MaxRecords == 2     \* blame records (source lines) per file
MaxIoErrors == 1    \* directories and directory entries that fail to read per walk
MaxHotspots == 12   \* length of the slice format_hotspot_report is given
MaxDays == 800      \* days between two instants a ContributorStats is rendered from

(***************************************************************************)
(* State                                                                   *)
(***************************************************************************)
VARIABLES
    analyzer,         \* the analyzer this invocation runs
    pc,               \* "run" while it consumes input, "done" once it returned; who-knows
                      \* begins at "check", the line-by-line hotspot run at "filter"; the bus
                      \* factor run: "start", "walk", "blame", "done", "reported"
    existing_files,   \* hotspots: HashSet of the git ls-files listing
    first,            \* hotspots: existing_files.iter().next(), an Option
    hotspots,         \* hotspots: the aggregation map path -> FileHotspot
    fed,              \* hotspots: number of change events read so far, per (path, author)
    fed_times,        \* hotspots: the commit times of the change events read so far, per path
    fed_events,       \* hotspots: number of change events read so far, per (path, author, time)
    hot_result,       \* hotspots: the Vec analyze returns
    contributors,     \* who-knows: HashMap name -> ContributorStats
    log_lines,        \* who-knows: number of git log lines read so far
    who_ret,          \* who-knows: "ok" or the error once returned
    who_env,          \* who-knows: whether the path exists, whether a repository root
                      \* lies above the path, whether the current directory is in one
    who_result,       \* who-knows: the Vec analyze_file_expertise returns
    who_fed           \* who-knows: the git log lines read so far, each split at tabs

VARIABLES
    supplied,              \* hotspots: the path_filter argument of new, an Option
    path_filter,           \* hotspots: self.path_filter, an Option
    cwd_rel,               \* hotspots: the current directory relative to the repository
                           \* root, None when it is outside the repository
    tracked,               \* hotspots: the files of the git index
    effective,             \* hotspots: effective_path_filter, an Option
    current_time,          \* hotspots: current_time of the parse loop
    hot_current_author,    \* hotspots: current_author of the parse loop
    lines_read,            \* hotspots: loop iterations of the parse loop so far
    commit,                \* the header lines [ts, author] git printed last, an Option
    hot_commit_count,      \* hotspots: commit_count of the parse loop, the headers it counted
    n_commits,             \* the commit headers git printed so far
    n_records,             \* the change records git printed so far
    n_events,              \* the process_file_change calls so far
    last_record,           \* [path, ts, author, read_as]: the change record printed last, with
                           \* how the loop read its line ("record", "header", "timestamp",
                           \* "author"), and with the
                           \* header lines of its commit, an Option
    last_event,            \* [path, time, author]: the arguments of the last
                           \* process_file_change call, an Option
    corrupt                \* whether a header of the stream was malformed

stream_vars == <<supplied, path_filter, cwd_rel, tracked, effective, current_time, hot_current_author,
                 lines_read, commit, n_records, n_events, last_record, last_event, corrupt,
                 hot_commit_count, n_commits>>
hot_vars == <<existing_files, first, hotspots, fed, fed_times, fed_events, hot_result,
             stream_vars>>
who_vars == <<contributors, log_lines, who_ret, who_env, who_result, who_fed>>

VARIABLES
    threshold,             \* bus factor: self.threshold, a percentage
    target,                \* bus factor: target_path of analyze_path
    stack,                 \* bus factor: analyze_directory frames [dir, idx], innermost last
    results,               \* bus factor: the Vec analyze_path fills
    bus_ret,               \* bus factor: "ok", "Err(read_dir)" or "Err(entry)" once
                           \* analyze_path returned
    io_failed,             \* bus factor: the directories and entries that failed to read
    cur_file,              \* bus factor: Some(path) while analyze_file parses its blame
    current_author,        \* analyze_file locals
    author_lines,
    total_lines,
    in_multiline_comment,
    records,               \* blame records read for cur_file
    blamed,                \* the source lines of the blame records read for cur_file (kept
                           \* when one file is parsed on its own)
    file_ret,              \* what the last analyze_file call returned, with its path,
                           \* its author_lines and total_lines, and the order its map iterated in
    visited,               \* bus factor: the paths analyze_file was called on
    calls,                 \* bus factor: the number of analyze_file calls so far
    report                 \* sorted_results of format_bus_factor_report

parse_vars == <<current_author, author_lines, total_lines, in_multiline_comment, records,
               blamed>>
bus_vars == <<threshold, target, stack, results, bus_ret, io_failed, cur_file, parse_vars,
              file_ret, visited, calls, report>>

VARIABLES
    view,                  \* rendering: the function applied, "none" in an analyzer run
    view_in,               \* rendering: its input
    view_pos,              \* format_hotspot_report: entries of the slice rendered so far
    view_out               \* rendering: what was pushed to the output last, an Option

view_vars == <<view, view_in, view_pos, view_out>>

vars == <<analyzer, pc, hot_vars, who_vars, bus_vars, view_vars>>

(***************************************************************************)
(* Option, maps and text primitives.                                       *)
(***************************************************************************)
None == <<>>
Some(v) == <<v>>

EmptyMap == [k \in {} |-> 0]
Put(m, k, v) == (k :> v) @@ m
GetOr(m, k, d) == IF k \in DOMAIN m THEN m[k] ELSE d

\* the iteration orders a HashMap / HashSet with key set S can have
Orders(S) ==
    {s \in [1..Cardinality(S) -> S] : \A i, j \in 1..Cardinality(S) : i # j => s[i] # s[j]}

Upper == <<"A","B","C","D","E","F","G","H","I","J","K","L","M",
           "N","O","P","Q","R","S","T","U","V","W","X","Y","Z">>
Lower == <<"a","b","c","d","e","f","g","h","i","j","k","l","m",
           "n","o","p","q","r","s","t","u","v","w","x","y","z">>
LowerOf == [c \in {Upper[i] : i \in 1..26} |-> Lower[CHOOSE i \in 1..26 : Upper[i] = c]]
to_lowercase_char(c) == IF c \in DOMAIN LowerOf THEN LowerOf[c] ELSE c
to_lowercase(s) == [i \in 1..Len(s) |-> to_lowercase_char(s[i])]

starts_with(s, p) == Len(p) <= Len(s) /\ SubSeq(s, 1, Len(p)) = p
ends_with(s, p) == Len(p) <= Len(s) /\ SubSeq(s, Len(s) - Len(p) + 1, Len(s)) = p

\* position of the last occurrence of character c in s, 0 when there is none
LastIndexOf(s, c) ==
    IF \E i \in 1..Len(s) : s[i] = c
    THEN CHOOSE i \in 1..Len(s) : s[i] = c /\ \A j \in (i + 1)..Len(s) : s[j] # c
    ELSE 0

\* std::path::Path for the relative, '/'-separated paths git prints
file_name(p) == SubSeq(p, LastIndexOf(p, "/") + 1, Len(p))
parent(p) ==
    IF p = <<>> THEN None
    ELSE IF LastIndexOf(p, "/") = 0 THEN Some(<<>>)
    ELSE Some(SubSeq(p, 1, LastIndexOf(p, "/") - 1))
\* a slip the walk must not make: no extension is ever recognised
extension_none(p) == None

extension(p) ==
    LET f == file_name(p)
        i == LastIndexOf(f, ".")
    IN  IF i <= 1 THEN None ELSE Some(SubSeq(f, i + 1, Len(f)))

(***************************************************************************)
(* Stable sort (slice::sort_by): before[i][j] is "cmp(s[i], s[j]) = Less". *)
(* The element at index i lands behind every element that compares Less    *)
(* than it and behind every earlier element that does not compare Greater. *)
(***************************************************************************)
sort_by(s, before) ==
    LET rank(i) ==
            1 + Cardinality({j \in 1..Len(s) :
                    before[j][i] \/ (j < i /\ ~before[i][j])})
    IN  [k \in 1..Len(s) |-> s[CHOOSE i \in 1..Len(s) : rank(i) = k]]

(***************************************************************************)
(* Hotspot analyzer: src/hotspots/mod.rs                                   *)
(***************************************************************************)
IGNORED_PATTERNS == {
    <<"c","o","n","f","i","g">>, <<"c","o","n","f">>, <<"c","f","g">>, <<"i","n","i">>,
    <<"y","a","m","l">>, <<"y","m","l">>, <<"t","o","m","l">>, <<"j","s","o","n">>,
    <<"x","m","l">>, <<"p","r","o","p","e","r","t","i","e","s">>, <<"e","n","v">>,
    <<"d","i","s","t">>, <<"p","l","i","s","t">>, <<"m","d">>,
    <<"m","a","r","k","d","o","w","n">>, <<"t","x","t">>, <<"r","s","t">>,
    <<"a","d","o","c">>, <<"d","o","c">>, <<"d","o","c","x">>, <<"p","d","f">>,
    <<"c","s","v">>, <<"t","s","v">>, <<"s","q","l">>, <<"d","b">>,
    <<"s","q","l","i","t","e">>, <<"l","o","c","k">>, <<"s","n","a","p","s","h","o","t">>,
    <<"m","i","n",".","j","s">>, <<"m","i","n",".","c","s","s">>, <<"m","a","p">>,
    <<"b","u","n","d","l","e",".","j","s">>, <<"b","u","n","d","l","e",".","c","s","s">>,
    <<"s","u","m">>, <<"m","o","d">>, <<"j","a","r">>, <<"w","a","r">>, <<"e","a","r">>,
    <<"c","l","a","s","s">>, <<"p","y","c">>, <<"p","y","o">>, <<"o">>, <<"o","b","j">>,
    <<"a">>, <<"l","i","b">>, <<"s","o">>, <<"d","l","l">>, <<"d","y","l","i","b">>,
    <<"p","n","g">>, <<"j","p","g">>, <<"j","p","e","g">>, <<"g","i","f">>, <<"s","v","g">>,
    <<"i","c","o">>, <<"b","m","p">>, <<"w","e","b","p">>, <<"m","p","3">>, <<"m","p","4">>,
    <<"w","a","v">>, <<"a","v","i">>, <<"m","o","v">>, <<"w","e","b","m">>, <<"t","t","f">>,
    <<"o","t","f">>, <<"w","o","f","f">>, <<"w","o","f","f","2">>, <<"e","o","t">>,
    <<"z","i","p">>, <<"t","a","r">>, <<"g","z">>, <<"r","a","r">>, <<"7","z">>,
    <<"g","i","t","i","g","n","o","r","e">>,
    <<"d","o","c","k","e","r","i","g","n","o","r","e">>,
    <<"e","d","i","t","o","r","c","o","n","f","i","g">>, <<"D","S","_","S","t","o","r","e">>,
    <<"e","s","l","i","n","t","r","c">>, <<"p","r","e","t","t","i","e","r","r","c">>,
    <<"b","a","b","e","l","r","c">>,
    <<"b","r","o","w","s","e","r","s","l","i","s","t","r","c">>
    }

is_source_file(file_path) ==
    LET lower_path == to_lowercase(file_path)
    IN  IF \E pattern \in IGNORED_PATTERNS : ends_with(lower_path, pattern)
        THEN FALSE
        ELSE extension(file_path) # None

Authors == {"X", "Y"}
Times == {1, 2}

a_rs == <<"a",".","r","s">>
s_b_rs == <<"s","/","b",".","r","s">>
s_a_txt == <<"s","/","a",".","t","x","t">>
\* the paths the history names; git ls-files lists any subset of them
HotPaths == {a_rs, s_b_rs, s_a_txt}

\* a fold that counts a commit only for an author new to the file
fold_change_count_new_authors(hs, file_path, commit_time, author) ==
    LET entry == IF file_path \in DOMAIN hs THEN hs[file_path]
                 ELSE [path |-> file_path, commit_count |-> 0, contributor_count |-> 0,
                       last_modified |-> commit_time, contributors |-> EmptyMap]
        conts == Put(entry.contributors, author, GetOr(entry.contributors, author, 0) + 1)
    IN  Put(hs, file_path,
            [path |-> entry.path,
             commit_count |-> IF author \in DOMAIN entry.contributors
                              THEN entry.commit_count ELSE entry.commit_count + 1,
             contributor_count |-> Cardinality(DOMAIN conts),
             last_modified |-> IF commit_time > entry.last_modified
                               THEN commit_time ELSE entry.last_modified,
             contributors |-> conts])

\* a fold that counts a contributor per event
fold_change_count_per_event(hs, file_path, commit_time, author) ==
    LET entry == IF file_path \in DOMAIN hs THEN hs[file_path]
                 ELSE [path |-> file_path, commit_count |-> 0, contributor_count |-> 0,
                       last_modified |-> commit_time, contributors |-> EmptyMap]
        conts == Put(entry.contributors, author, GetOr(entry.contributors, author, 0) + 1)
    IN  Put(hs, file_path,
            [path |-> entry.path,
             commit_count |-> entry.commit_count + 1,
             contributor_count |-> entry.contributor_count + 1,
             last_modified |-> IF commit_time > entry.last_modified
                               THEN commit_time ELSE entry.last_modified,
             contributors |-> conts])

\* a fold that takes the time of every event as last_modified
fold_change_latest_read(hs, file_path, commit_time, author) ==
    LET entry == IF file_path \in DOMAIN hs THEN hs[file_path]
                 ELSE [path |-> file_path, commit_count |-> 0, contributor_count |-> 0,
                       last_modified |-> commit_time, contributors |-> EmptyMap]
        conts == Put(entry.contributors, author, GetOr(entry.contributors, author, 0) + 1)
    IN  Put(hs, file_path,
            [path |-> entry.path,
             commit_count |-> entry.commit_count + 1,
             contributor_count |-> Cardinality(DOMAIN conts),
             last_modified |-> commit_time,
             contributors |-> conts])

\* process_file_change from `hotspots.entry(..).or_insert_with(..)` on: the fold
\* of one change event into its FileHotspot
fold_change(hs, file_path, commit_time, author) ==
    LET entry == IF file_path \in DOMAIN hs THEN hs[file_path]
                 ELSE [path |-> file_path, commit_count |-> 0, contributor_count |-> 0,
                       last_modified |-> commit_time, contributors |-> EmptyMap]
        conts == Put(entry.contributors, author, GetOr(entry.contributors, author, 0) + 1)
    IN  Put(hs, file_path,
            [path |-> entry.path,
             commit_count |-> entry.commit_count + 1,
             contributor_count |-> Cardinality(DOMAIN conts),
             last_modified |-> IF commit_time > entry.last_modified
                               THEN commit_time ELSE entry.last_modified,
             contributors |-> conts])

\* a slip the fold must not make: the directory-prefix test applied to tracked
\* files too
process_file_change_prefix_always(hs, existing, first_file, file_path, commit_time, author) ==
    IF /\ first_file # None
       /\ parent(first_file[1]) # None
       /\ ~starts_with(file_path, parent(first_file[1])[1])
    THEN hs
    ELSE IF ~is_source_file(file_path) THEN hs
    ELSE fold_change(hs, file_path, commit_time, author)

\* first_file is existing_files.iter().next()
process_file_change(hs, existing, first_file, file_path, commit_time, author) ==
    IF /\ file_path \notin existing
       /\ first_file # None
       /\ parent(first_file[1]) # None
       /\ ~starts_with(file_path, parent(first_file[1])[1])
    THEN hs
    ELSE IF ~is_source_file(file_path) THEN hs
    ELSE fold_change(hs, file_path, commit_time, author)

\* a slip the ranking must not make: ascending order
hot_before_ascending(a, b) == a.commit_count < b.commit_count

\* result.sort_by(|a, b| b.commit_count.cmp(&a.commit_count))
hot_before(a, b) == b.commit_count < a.commit_count

\* hotspots.into_values().collect() in iteration order ord, then the sort
hot_collect(hs, ord) ==
    LET result == [i \in 1..Len(ord) |-> hs[ord[i]]]
    IN  sort_by(result, [i \in 1..Len(result) |->
                           [j \in 1..Len(result) |-> hot_before(result[i], result[j])]])

FedTotal == LET RECURSIVE Sum(_)
                Sum(S) == IF S = {} THEN 0
                          ELSE LET k == CHOOSE k \in S : TRUE IN fed[k] + Sum(S \ {k})
            IN  Sum(DOMAIN fed)

\* an analyzer run renders nothing
ViewIdle ==
    /\ view = "none"
    /\ view_in = <<>>
    /\ view_pos = 0
    /\ view_out = <<>>

\* no path filter, and the parse loop before its first line
StreamIdle ==
    /\ supplied = None
    /\ path_filter = None
    /\ cwd_rel = None
    /\ effective = None
    /\ current_time = 0
    /\ hot_current_author = <<>>
    /\ lines_read = 0
    /\ commit = None
    /\ hot_commit_count = 0
    /\ n_commits = 0
    /\ n_records = 0
    /\ n_events = 0
    /\ last_record = None
    /\ last_event = None
    /\ corrupt = FALSE

HotInit ==
    /\ existing_files \in SUBSET HotPaths
    /\ first \in {Some(f) : f \in existing_files} \cup {None}
    /\ first = None <=> existing_files = {}
    /\ hotspots = EmptyMap
    /\ fed = [k \in HotPaths \X Authors |-> 0]
    /\ fed_times = [p \in HotPaths |-> {}]
    /\ fed_events = [e \in HotPaths \X Authors \X Times |-> 0]
    /\ hot_result = <<>>
    /\ tracked = existing_files
    /\ StreamIdle

HotIdle ==
    /\ existing_files = {}
    /\ first = None
    /\ hotspots = EmptyMap
    /\ fed = [k \in HotPaths \X Authors |-> 0]
    /\ fed_times = [p \in HotPaths |-> {}]
    /\ fed_events = [e \in HotPaths \X Authors \X Times |-> 0]
    /\ hot_result = <<>>
    /\ tracked = {}
    /\ StreamIdle

\* one numstat record of the git log stream, under the header (author, commit_time)
HotChange(file_path, author, commit_time) ==
    /\ analyzer = "hotspots" /\ pc = "run"
    /\ FedTotal < MaxEvents
    /\ hotspots' = process_file_change(hotspots, existing_files, first,
                                        file_path, commit_time, author)
    /\ fed' = [fed EXCEPT ![<<file_path, author>>] = @ + 1]
    /\ fed_times' = [fed_times EXCEPT ![file_path] = @ \cup {commit_time}]
    /\ fed_events' = [fed_events EXCEPT ![<<file_path, author, commit_time>>] = @ + 1]
    /\ UNCHANGED <<view_vars, analyzer, pc, existing_files, first, hot_result, stream_vars, who_vars,
                   bus_vars>>

\* end of the stream: collect, sort, return
HotFinish ==
    /\ analyzer = "hotspots" /\ pc = "run"
    /\ \E ord \in Orders(DOMAIN hotspots) : hot_result' = hot_collect(hotspots, ord)
    /\ pc' = "done"
    /\ UNCHANGED <<view_vars, analyzer, existing_files, first, hotspots, fed, fed_times, fed_events,
                   stream_vars, who_vars,
                   bus_vars>>

(***************************************************************************)
(* Who-knows analyzer: src/who_knows                                       *)
(***************************************************************************)
Digits == <<"0","1","2","3","4","5","6","7","8","9">>
IsDigit(c) == \E i \in 1..10 : Digits[i] = c
DigitVal(c) == (CHOOSE i \in 1..10 : Digits[i] = c) - 1

\* str::parse::<i64> on an unsigned decimal token
RECURSIVE DecVal(_)
DecVal(tok) == IF tok = <<>> THEN 0
               ELSE 10 * DecVal(SubSeq(tok, 1, Len(tok) - 1)) + DigitVal(tok[Len(tok)])
is_i64(tok) == tok # <<>> /\ \A i \in 1..Len(tok) : IsDigit(tok[i])
parse_i64(tok) == IF is_i64(tok) THEN Some(DecVal(tok)) ELSE None

\* 10^13, a numeral that parses as an i64 and lies past the last instant chrono
\* represents
far_token == <<"1","0","0","0","0","0","0","0","0","0","0","0","0","0">>
TsTokens == {<<"1">>, <<"2">>, <<"1","0">>, <<"x">>, far_token}

\* the numeral without its leading zeros
RECURSIVE significant(_)
significant(tok) ==
    IF Len(tok) > 1 /\ Head(tok) = "0" THEN significant(Tail(tok)) ELSE tok

\* DateTime::from_timestamp(timestamp, 0) is Some: the range of chrono ends near
\* 8.2 * 10^12 seconds, so a timestamp of at most 12 significant digits is an
\* instant and one of 14 or more is not.  The test reads the numeral, whose value
\* is past the integers of the model checker; no numeral of TsTokens has 13 digits
from_timestamp_is_some(tok) == Len(significant(tok)) <= 12
\* a git log line split at tabs: hash, author name, author time; a name holding a
\* tab gives a fourth part
LogLines ==
    {<<"h", n, ts>> : n \in Authors, ts \in TsTokens}
      \cup {<<"h", n, "t", ts>> : n \in Authors, ts \in {<<"1">>}}

\* ContributorStats::new
stats_new(name, timestamp) ==
    [name |-> name, commit_count |-> 1, last_commit |-> timestamp, first_commit |-> timestamp]

\* an update with the two comparisons exchanged
stats_update_swapped(st, timestamp) ==
    [name |-> st.name,
     commit_count |-> st.commit_count + 1,
     last_commit |-> IF timestamp < st.last_commit THEN timestamp ELSE st.last_commit,
     first_commit |-> IF timestamp > st.first_commit THEN timestamp ELSE st.first_commit]

\* an update that keeps last_commit as it was
stats_update_keep_last(st, timestamp) ==
    [name |-> st.name,
     commit_count |-> st.commit_count + 1,
     last_commit |-> st.last_commit,
     first_commit |-> IF timestamp < st.first_commit THEN timestamp ELSE st.first_commit]

\* ContributorStats::update
stats_update(st, timestamp) ==
    [name |-> st.name,
     commit_count |-> st.commit_count + 1,
     last_commit |-> IF timestamp > st.last_commit THEN timestamp ELSE st.last_commit,
     first_commit |-> IF timestamp < st.first_commit THEN timestamp ELSE st.first_commit]

\* stats.sort_by(|a, b| b.commit_count.cmp(&a.commit_count))
who_before(a, b) == b.commit_count < a.commit_count

who_collect(cs, ord) ==
    LET stats == [i \in 1..Len(ord) |-> cs[ord[i]]]
    IN  sort_by(stats, [i \in 1..Len(stats) |->
                          [j \in 1..Len(stats) |-> who_before(stats[i], stats[j])]])

WhoEnvs == [path_exists : BOOLEAN, path_in_repo : BOOLEAN, cwd_in_repo : BOOLEAN]
WhoInit ==
    /\ contributors = EmptyMap
    /\ log_lines = 0
    /\ who_ret = "none"
    /\ who_result = <<>>
    /\ who_fed = <<>>
    /\ who_env \in IF analyzer = "who_knows" THEN WhoEnvs
                   ELSE {[path_exists |-> TRUE, path_in_repo |-> TRUE, cwd_in_repo |-> TRUE]}

\* the checks before the loop: Path::new(path).exists(), git rev-parse
\* --show-toplevel in the current directory, git log --follow -- path.  Each
\* git command may fail to start (spawned), and git log may exit with an error;
\* it does when the path is not inside the repository of the current directory
WhoCheck(spawned, log_ok) ==
    /\ analyzer = "who_knows" /\ pc = "check"
    /\ IF ~who_env.path_exists
       THEN pc' = "done" /\ who_ret' = "Path does not exist"
       ELSE IF ~spawned
       THEN pc' = "done" /\ who_ret' \in {"Not a git repository", "Failed to execute git command"}
       ELSE IF ~who_env.cwd_in_repo
       THEN pc' = "done" /\ who_ret' = "Not inside a git repository"
       ELSE IF ~log_ok \/ ~who_env.path_in_repo
       THEN pc' = "done" /\ who_ret' = "Git command failed"
       ELSE pc' = "run" /\ UNCHANGED who_ret
    /\ UNCHANGED <<view_vars, analyzer, contributors, log_lines, who_env, who_result, who_fed, hot_vars, bus_vars>>

\* log_output.trim().is_empty()
WhoNoHistory ==
    /\ analyzer = "who_knows" /\ pc = "run" /\ log_lines = 0
    /\ pc' = "done" /\ who_ret' = "No git history found"
    /\ UNCHANGED <<view_vars, analyzer, contributors, log_lines, who_env, who_result, who_fed, hot_vars, bus_vars>>

\* the body of the loop for a line of three parts with a valid timestamp:
\* contributors.get_mut(&name) / update, else insert(new)
who_insert(cs, name, datetime) ==
    IF name \in DOMAIN cs
    THEN Put(cs, name, stats_update(cs[name], datetime))
    ELSE Put(cs, name, stats_new(name, datetime))

\* the loop over a whole log whose timestamps all parse
RECURSIVE who_fold(_, _)
who_fold(cs, lines) ==
    IF lines = <<>> THEN cs
    ELSE who_fold(IF Len(Head(lines)) # 3 THEN cs
                  ELSE who_insert(cs, Head(lines)[2], parse_i64(Head(lines)[3])[1]),
                  Tail(lines))

\* an iteration that passes over a record whose timestamp is bad, as it passes
\* over a line that has not three parts
WhoLine_skip_bad(parts) ==
    /\ analyzer = "who_knows" /\ pc = "run"
    /\ log_lines < MaxLogLines
    /\ log_lines' = log_lines + 1
    /\ who_fed' = Append(who_fed, parts)
    /\ IF Len(parts) # 3 \/ ~is_i64(parts[3]) \/ ~from_timestamp_is_some(parts[3])
       THEN UNCHANGED <<pc, who_ret, contributors>>
       ELSE /\ contributors' = who_insert(contributors, parts[2], parse_i64(parts[3])[1])
            /\ UNCHANGED <<pc, who_ret>>
    /\ UNCHANGED <<view_vars, analyzer, who_env, who_result, hot_vars, bus_vars>>

\* one iteration of the loop over log_output.lines()
WhoLine(parts) ==
    /\ analyzer = "who_knows" /\ pc = "run"
    /\ log_lines < MaxLogLines
    /\ log_lines' = log_lines + 1
    /\ who_fed' = Append(who_fed, parts)
    /\ IF Len(parts) # 3
       THEN UNCHANGED <<pc, who_ret, contributors>>
       ELSE IF ~is_i64(parts[3])
       THEN pc' = "done" /\ who_ret' = "Failed to parse timestamp" /\ UNCHANGED contributors
       ELSE IF ~from_timestamp_is_some(parts[3])
       THEN pc' = "done" /\ who_ret' = "Invalid timestamp" /\ UNCHANGED contributors
       ELSE /\ contributors' = who_insert(contributors, parts[2], parse_i64(parts[3])[1])
            /\ UNCHANGED <<pc, who_ret>>
    /\ UNCHANGED <<view_vars, analyzer, who_env, who_result, hot_vars, bus_vars>>

\* end of the output: collect, sort, return Ok(stats)
WhoFinish ==
    /\ analyzer = "who_knows" /\ pc = "run" /\ log_lines > 0
    /\ \E ord \in Orders(DOMAIN contributors) : who_result' = who_collect(contributors, ord)
    /\ pc' = "done" /\ who_ret' = "ok"
    /\ UNCHANGED <<view_vars, analyzer, contributors, log_lines, who_env, who_fed, hot_vars, bus_vars>>

(***************************************************************************)
(* Bus-factor analyzer: src/bus_factor.rs                                  *)
(***************************************************************************)
IsSpace(c) == c \in {" ", "\t"}
\* str::trim
trim(s) ==
    IF \A i \in 1..Len(s) : IsSpace(s[i]) THEN <<>>
    ELSE LET lo == CHOOSE i \in 1..Len(s) : ~IsSpace(s[i]) /\ \A j \in 1..(i - 1) : IsSpace(s[j])
             hi == CHOOSE i \in 1..Len(s) : ~IsSpace(s[i]) /\ \A j \in (i + 1)..Len(s) : IsSpace(s[j])
         IN  SubSeq(s, lo, hi)

\* a slip the percentage must not make: a fraction instead of a percentage
Pct_unscaled(lines, total) == [num |-> lines, den |-> total]

\* f64 as an exact rational; den = 0 is NaN (0.0 / 0.0), which compares false
Pct(lines, total) == [num |-> lines * 100, den |-> total]
f64_lt(a, b) == a.den > 0 /\ b.den > 0 /\ a.num * b.den < b.num * a.den
f64_eq(a, b) == a.den > 0 /\ b.den > 0 /\ a.num * b.den = b.num * a.den
\* a slip the filter must not make: a strict comparison
meets_threshold_strict(pct, thr) == pct.den > 0 /\ pct.num > thr * pct.den

\* result.ownership_percentage >= self.threshold
meets_threshold(pct, thr) == pct.den > 0 /\ pct.num >= thr * pct.den

\* the working tree: read_dir order of every directory, paths relative to the root
git_dir == <<".","g","i","t">>
sub_dir == <<"s","u","b">>
c_rs == <<"c",".","r","s">>
p_png == <<"p",".","p","n","g">>
d_rs == <<"d",".","r","s">>
h_rs == <<".","h",".","r","s">>
x_rs == <<"x",".","r","s">>
RootDir == <<>>
join(dir, name) == IF dir = <<>> THEN name ELSE dir \o <<"/">> \o name
Tree == (RootDir :> <<a_rs, git_dir, sub_dir, p_png, c_rs>>)
          @@ (sub_dir :> <<h_rs, d_rs>>)
          @@ (git_dir :> <<x_rs>>)
is_dir(path) == path \in DOMAIN Tree
is_file(path) == \E d \in DOMAIN Tree : \E i \in 1..Len(Tree[d]) :
                     join(d, Tree[d][i]) = path /\ path \notin DOMAIN Tree
Targets == {RootDir, sub_dir, a_rs}
Thresholds == {50, 100}

SKIPPED_EXTENSIONS == {<<"e","x","e">>, <<"d","l","l">>, <<"s","o">>, <<"d","y","l","i","b">>,
                       <<"p","n","g">>, <<"j","p","g">>, <<"j","p","e","g">>, <<"g","i","f">>,
                       <<"p","d","f">>}

BlameAuthors == {<<"X">>, <<"Y">>}
\* the source lines a blamed file may hold
CodeLines == {<<>>, <<" ">>, <<"x">>, <<" ","x"," ">>, <<"x","/","/">>,
              <<"/","/","x">>, <<"/","*","x">>, <<"x","*","/">>, <<"*","/">>,
              <<"*","x">>, <<"/","*","*","/">>}
author_line(a) == <<"a","u","t","h","o","r"," ">> \o a
mail_line == <<"a","u","t","h","o","r","-","m","a","i","l"," ","@">>
content_line(code) == <<"\t">> \o code

\* one iteration of `for line in blame_output.lines()`
blame_line(st, line) ==
    IF starts_with(line, <<"a","u","t","h","o","r"," ">>)
    THEN [st EXCEPT !.current_author = SubSeq(line, 8, Len(line))]
    ELSE IF starts_with(line, <<"\t">>)
    THEN LET code_line == trim(SubSeq(line, 2, Len(line)))
         IN  IF code_line = <<>> THEN st
             ELSE IF starts_with(code_line, <<"/","*">>)
             THEN [st EXCEPT !.in_multiline_comment = TRUE]
             ELSE IF ends_with(code_line, <<"*","/">>)
             THEN [st EXCEPT !.in_multiline_comment = FALSE]
             ELSE IF st.in_multiline_comment \/ starts_with(code_line, <<"*">>) THEN st
             ELSE IF starts_with(code_line, <<"/","/">>) THEN st
             ELSE [st EXCEPT !.total_lines = @ + 1,
                             !.author_lines = Put(@, st.current_author,
                                                  GetOr(@, st.current_author, 0) + 1)]
    ELSE st

\* what max_by_key does not do: return the first maximum
max_by_key_first(ord, counts) ==
    IF ord = <<>> THEN None
    ELSE LET i == CHOOSE i \in 1..Len(ord) :
                     /\ \A j \in 1..Len(ord) : counts[ord[j]] <= counts[ord[i]]
                     /\ \A j \in 1..(i - 1) : counts[ord[j]] < counts[ord[i]]
         IN  Some(<<ord[i], counts[ord[i]]>>)

\* Iterator::max_by_key over the map iterated in order ord: the last maximum
max_by_key(ord, counts) ==
    IF ord = <<>> THEN None
    ELSE LET i == CHOOSE i \in 1..Len(ord) :
                     /\ \A j \in 1..Len(ord) : counts[ord[j]] <= counts[ord[i]]
                     /\ \A j \in (i + 1)..Len(ord) : counts[ord[j]] < counts[ord[i]]
         IN  Some(<<ord[i], counts[ord[i]]>>)

unwrap_or(opt, default) == IF opt = None THEN default ELSE opt[1]

\* the tail of analyze_file, from `if total_lines == 0` on; ord is the iteration
\* order of author_lines.into_iter()
Unknown == <<"U","n","k","n","o","w","n">>
Err(path, msg, counts, total) ==
    [path |-> path, ok |-> FALSE, err |-> msg, counts |-> counts, total |-> total]
\* a slip analyze_file must not make: no `total_lines == 0` check
file_result_no_zero_check(path, counts, total, ord) ==
    LET dom == unwrap_or(max_by_key(ord, counts), <<Unknown, 0>>)
    IN  [path |-> path, ok |-> TRUE, counts |-> counts, total |-> total, order |-> ord,
         result |-> [path |-> path,
                     dominant_author |-> dom[1],
                     ownership_percentage |-> Pct(dom[2], total),
                     total_lines |-> total]]

file_result(path, counts, total, ord) ==
    IF total = 0 THEN Err(path, "No lines to analyze", counts, total)
    ELSE LET dom == unwrap_or(max_by_key(ord, counts), <<Unknown, 0>>)
         IN  [path |-> path, ok |-> TRUE, counts |-> counts, total |-> total, order |-> ord,
              result |-> [path |-> path,
                          dominant_author |-> dom[1],
                          ownership_percentage |-> Pct(dom[2], total),
                          total_lines |-> total]]

\* the caller's `if result.ownership_percentage >= self.threshold { results.push(result) }`
push_if_risky(res, ret, thr) ==
    IF ret.ok /\ meets_threshold(ret.result.ownership_percentage, thr)
    THEN Append(res, ret.result) ELSE res

\* a slip the report must not make: no tie-break on total_lines
bus_before_no_tiebreak(a, b) == f64_lt(b.ownership_percentage, a.ownership_percentage)

\* the comparator of sorted_results.sort_by in format_bus_factor_report
bus_before(a, b) ==
    IF f64_eq(b.ownership_percentage, a.ownership_percentage)
    THEN b.total_lines < a.total_lines
    ELSE f64_lt(b.ownership_percentage, a.ownership_percentage)

NoParse ==
    /\ current_author = <<>>
    /\ author_lines = EmptyMap
    /\ total_lines = 0
    /\ in_multiline_comment = FALSE
    /\ records = 0
    /\ blamed = <<>>

\* the locals of analyze_file go out of scope
DropParse ==
    /\ current_author' = <<>>
    /\ author_lines' = EmptyMap
    /\ total_lines' = 0
    /\ in_multiline_comment' = FALSE
    /\ records' = 0
    /\ blamed' = <<>>

BusInit ==
    /\ threshold \in Thresholds
    /\ target \in Targets
    /\ stack = <<>>
    /\ results = <<>>
    /\ bus_ret = "none"
    /\ io_failed = {}
    /\ cur_file = None
    /\ NoParse
    /\ file_ret = None
    /\ visited = {}
    /\ calls = 0
    /\ report = <<>>

BusIdle ==
    /\ threshold = 0
    /\ target = RootDir
    /\ stack = <<>>
    /\ results = <<>>
    /\ bus_ret = "none"
    /\ io_failed = {}
    /\ cur_file = None
    /\ NoParse
    /\ file_ret = None
    /\ visited = {}
    /\ calls = 0
    /\ report = <<>>

\* what analyze_file does before its blame loop: it fails (the file cannot be
\* read, is empty, git blame fails) or goes on to parse the blame output
FileOutcomes == {"read failed", "Empty file", "Failed to run git blame", "blame"}

\* the directory loop moves on to the next entry of the innermost frame
NextEntry(stk) == [stk EXCEPT ![Len(stk)].idx = @ + 1]
Pop(stk) == SubSeq(stk, 1, Len(stk) - 1)

\* analyze_path, target_path.is_file(): analyze that file alone
PathFile(outcome) ==
    /\ analyzer = "bus_factor" /\ pc = "start"
    /\ is_file(target)
    /\ IF outcome = "blame"
       THEN /\ cur_file' = Some(target) /\ pc' = "blame"
            /\ UNCHANGED <<file_ret, bus_ret>>
       ELSE /\ file_ret' = Some(Err(target, outcome, EmptyMap, 0))
            /\ pc' = "done" /\ bus_ret' = "ok"
            /\ UNCHANGED cur_file
    /\ visited' = visited \cup {target}
    /\ calls' = calls + 1
    /\ UNCHANGED <<view_vars, analyzer, threshold, target, stack, results, io_failed, parse_vars,
                   report, hot_vars, who_vars>>

\* analyze_path, else branch: self.analyze_directory(&target_path, &mut results)?
\* up to read_dir(dir_path)?
PathDir(readable) ==
    /\ analyzer = "bus_factor" /\ pc = "start"
    /\ ~is_file(target)
    /\ IF readable /\ is_dir(target)
       THEN /\ stack' = <<[dir |-> target, idx |-> 1]>> /\ pc' = "walk"
            /\ UNCHANGED <<bus_ret, io_failed>>
       ELSE /\ Cardinality(io_failed) < MaxIoErrors /\ io_failed' = io_failed \cup {target}
            /\ pc' = "done" /\ bus_ret' = "Err(read_dir)"
            /\ UNCHANGED stack
    /\ UNCHANGED <<view_vars, analyzer, threshold, target, results, cur_file, parse_vars, file_ret,
                   visited, calls, report, hot_vars, who_vars>>

\* analyze_directory: the entries are exhausted, Ok(()); the caller is the loop of
\* the parent directory or analyze_path
DirDone ==
    /\ analyzer = "bus_factor" /\ pc = "walk"
    /\ stack[Len(stack)].idx > Len(Tree[stack[Len(stack)].dir])
    /\ IF Len(stack) = 1
       THEN stack' = <<>> /\ pc' = "done" /\ bus_ret' = "ok"
       ELSE stack' = NextEntry(Pop(stack)) /\ UNCHANGED <<pc, bus_ret>>
    /\ UNCHANGED <<view_vars, analyzer, threshold, target, results, io_failed, cur_file, parse_vars,
                   file_ret, visited, calls, report, hot_vars, who_vars>>

\* analyze_directory: `let entry = entry?;` fails, the function returns Err.  A
\* parent directory drops it (`let _ =`), analyze_path propagates it (`?`) and
\* its results Vec is dropped
EntryError ==
    /\ analyzer = "bus_factor" /\ pc = "walk"
    /\ stack[Len(stack)].idx <= Len(Tree[stack[Len(stack)].dir])
    /\ Cardinality(io_failed) < MaxIoErrors
    /\ io_failed' = io_failed \cup
            {join(stack[Len(stack)].dir, Tree[stack[Len(stack)].dir][stack[Len(stack)].idx])}
    /\ IF Len(stack) = 1
       THEN stack' = <<>> /\ pc' = "done" /\ bus_ret' = "Err(entry)" /\ results' = <<>>
       ELSE stack' = NextEntry(Pop(stack)) /\ UNCHANGED <<pc, bus_ret, results>>
    /\ UNCHANGED <<view_vars, analyzer, threshold, target, cur_file, parse_vars, file_ret, visited, calls,
                   report, hot_vars, who_vars>>

\* analyze_directory: one iteration of the loop on a readable entry
Entry(outcome, readable) ==
    /\ analyzer = "bus_factor" /\ pc = "walk"
    /\ stack[Len(stack)].idx <= Len(Tree[stack[Len(stack)].dir])
    /\ LET top == stack[Len(stack)]
           name == Tree[top.dir][top.idx]
           path == join(top.dir, name)
       IN  IF starts_with(name, <<".">>)
           THEN stack' = NextEntry(stack)
                /\ UNCHANGED <<pc, cur_file, file_ret, visited, calls, io_failed>>
           ELSE IF is_file(path)
           THEN IF extension(path) # None /\ extension(path)[1] \in SKIPPED_EXTENSIONS
                THEN stack' = NextEntry(stack)
                     /\ UNCHANGED <<pc, cur_file, file_ret, visited, calls, io_failed>>
                ELSE IF outcome = "blame"
                THEN cur_file' = Some(path) /\ pc' = "blame"
                     /\ visited' = visited \cup {path}
                     /\ calls' = calls + 1
                     /\ UNCHANGED <<stack, file_ret, io_failed>>
                ELSE file_ret' = Some(Err(path, outcome, EmptyMap, 0))
                     /\ stack' = NextEntry(stack)
                     /\ visited' = visited \cup {path}
                     /\ calls' = calls + 1
                     /\ UNCHANGED <<pc, cur_file, io_failed>>
           ELSE IF is_dir(path) /\ file_name(path) # git_dir
           THEN IF readable
                THEN stack' = Append(stack, [dir |-> path, idx |-> 1])
                     /\ UNCHANGED <<pc, cur_file, file_ret, visited, calls, io_failed>>
                ELSE Cardinality(io_failed) < MaxIoErrors
                     /\ io_failed' = io_failed \cup {path}
                     /\ stack' = NextEntry(stack)
                     /\ UNCHANGED <<pc, cur_file, file_ret, visited, calls>>
           ELSE stack' = NextEntry(stack)
                /\ UNCHANGED <<pc, cur_file, file_ret, visited, calls, io_failed>>
    /\ UNCHANGED <<view_vars, analyzer, threshold, target, results, bus_ret, parse_vars, report,
                   hot_vars, who_vars>>

\* analyze_file: the lines of one blame record (git blame --line-porcelain prints
\* the commit's header with every source line)
BlameStep(author, code) ==
    /\ analyzer = "bus_factor" /\ pc = "blame"
    /\ records < MaxRecords
    /\ LET st0 == [current_author |-> current_author, author_lines |-> author_lines,
                   total_lines |-> total_lines,
                   in_multiline_comment |-> in_multiline_comment]
           st == blame_line(blame_line(blame_line(st0, author_line(author)), mail_line),
                            content_line(code))
       IN  /\ current_author' = st.current_author
           /\ author_lines' = st.author_lines
           /\ total_lines' = st.total_lines
           /\ in_multiline_comment' = st.in_multiline_comment
    /\ records' = records + 1
    /\ UNCHANGED <<view_vars, analyzer, pc, threshold, target, stack, results, bus_ret, io_failed,
                   cur_file, file_ret, visited, calls, report, hot_vars, who_vars>>

BlameRecord(author, code) == BlameStep(author, code) /\ UNCHANGED blamed

\* analyze_file: the blame output is exhausted; the result goes back to the caller,
\* which keeps it when it meets the threshold
BlameEnd ==
    /\ analyzer = "bus_factor" /\ pc = "blame"
    /\ records >= 1
    /\ \E ord \in Orders(DOMAIN author_lines) :
          LET ret == file_result(cur_file[1], author_lines, total_lines, ord)
          IN  /\ file_ret' = Some(ret)
              /\ results' = push_if_risky(results, ret, threshold)
    /\ cur_file' = None
    /\ DropParse
    /\ IF stack = <<>>
       THEN pc' = "done" /\ bus_ret' = "ok" /\ UNCHANGED stack
       ELSE pc' = "walk" /\ stack' = NextEntry(stack) /\ UNCHANGED bus_ret
    /\ UNCHANGED <<view_vars, analyzer, threshold, target, io_failed, visited, calls, report, hot_vars,
                   who_vars>>

\* format_bus_factor_report(&results): the order of the rendered lines
BusFormat ==
    /\ analyzer = "bus_factor" /\ pc = "done" /\ bus_ret = "ok"
    /\ report' = sort_by(results, [i \in 1..Len(results) |->
                          [j \in 1..Len(results) |-> bus_before(results[i], results[j])]])
    /\ pc' = "reported"
    /\ UNCHANGED <<view_vars, analyzer, threshold, target, stack, results, bus_ret, io_failed,
                   cur_file, parse_vars, file_ret, visited, calls, hot_vars, who_vars>>

(***************************************************************************)
(* HotspotAnalyzer::analyze line by line: the path filter, git ls-files    *)
(* and the parse loop over the lines git log prints                        *)
(* (--format=%H%n%at%n%aN%x00 --numstat).                                  *)
(***************************************************************************)
MaxLines == 3       \* loop iterations of the parse loop per run

b_rs == <<"b",".","r","s">>
s_dir == <<"s">>
m_y_rs == <<"m"," ","y",".","r","s">>
Index == {a_rs, s_b_rs}
\* repo.workdir(), with its trailing separator
repo_root == <<"/","r","/">>
q_dir == <<"/","q">>
\* the paths a user supplies: relative ones, and absolute ones inside and outside
\* the repository
SuppliedPaths == {a_rs, s_dir, b_rs,
                  repo_root \o a_rs, repo_root \o s_dir, repo_root \o s_b_rs, q_dir}

is_absolute(p) == p # <<>> /\ p[1] = "/"
RECURSIVE trim_start_matches(_, _)
trim_start_matches(p, c) ==
    IF p # <<>> /\ p[1] = c THEN trim_start_matches(Tail(p), c) ELSE p
RECURSIVE trim_end_matches(_, _)
trim_end_matches(p, c) ==
    IF p # <<>> /\ p[Len(p)] = c THEN trim_end_matches(SubSeq(p, 1, Len(p) - 1), c) ELSE p
\* Path::strip_prefix: base is a leading run of whole components of p
strip_prefix(p, base) ==
    LET b == trim_end_matches(base, "/")
    IN  IF p = b \/ p = base THEN Some(<<>>)
        ELSE IF starts_with(p, b \o <<"/">>)
        THEN Some(trim_start_matches(SubSeq(p, Len(b) + 1, Len(p)), "/"))
        ELSE None

\* a normalisation that leaves the argument as it was supplied
normalized_path_filter_identity(p) == p

\* HotspotAnalyzer::new: normalized_path_filter for the argument p
normalized_path_filter(p) ==
    LET path_to_check == IF is_absolute(p) THEN p
                         ELSE trim_end_matches(repo_root, "/") \o <<"/">>
                                \o trim_start_matches(p, "/")
        relative == strip_prefix(path_to_check, repo_root)
    IN  IF relative # None THEN relative[1] ELSE p

Filters == {None} \cup {Some(normalized_path_filter(p)) : p \in SuppliedPaths}
Cwds == {None, Some(<<>>), Some(s_dir)}

\* relative_to_repo: the filter as it is, or behind the current directory
relative_to_repo(filter, cwd) ==
    IF cwd # None
    THEN IF starts_with(filter, cwd[1]) THEN filter ELSE cwd[1] \o <<"/">> \o filter
    ELSE filter

\* git ls-files [pathspec]: the index entries the pathspec names, a file or a
\* leading directory
ls_files(index, pathspec) ==
    {f \in index : \/ pathspec = None
                   \/ f = pathspec[1]
                   \/ starts_with(f, pathspec[1] \o <<"/">>)}

\* a slip analyze must not make: the match is not checked
error_unmatch_always(index, pathspec) == TRUE

\* git ls-files --error-unmatch pathspec succeeds
error_unmatch(index, pathspec) == ls_files(index, Some(pathspec)) # {}

\* the lines of the stream
Hash40 == [i \in 1..40 |-> "h"]
NUL == "NUL"
name_line(a) == <<a, NUL>>
TsLines == {<<"1">>, <<"2">>, <<"x">>}
NameLines == {name_line(a) : a \in Authors} \cup {<<>>}
stat_line(path) == <<"1", "\t", "1", "\t">> \o path
\* a path of 36 bytes: its numstat line is as long as a commit id
deep_rs == [i \in 1..36 |-> IF i = 34 THEN "." ELSE IF i = 35 THEN "r"
                             ELSE IF i = 36 THEN "s" ELSE "d"]
StatPaths == {a_rs, s_b_rs, m_y_rs, deep_rs}
FollowingPaths == {None, Some(a_rs)}

\* str::split_whitespace
split_whitespace(s) ==
    LET starts == {i \in 1..Len(s) : ~IsSpace(s[i]) /\ (i = 1 \/ IsSpace(s[i - 1]))}
        start(k) == CHOOSE i \in starts : Cardinality({j \in starts : j < i}) = k - 1
        stop(i) == CHOOSE j \in i..Len(s) :
                       /\ \A l \in i..j : ~IsSpace(s[l])
                       /\ (j = Len(s) \/ IsSpace(s[j + 1]))
    IN  [k \in 1..Cardinality(starts) |-> SubSeq(s, start(k), stop(start(k)))]

\* parse_stat_line: the path of a numstat line
parse_stat_line(line) ==
    LET parts == split_whitespace(line)
    IN  IF Len(parts) # 3 THEN None ELSE Some(parts[3])

\* one iteration of `while let Some(line_result) = lines.next()`; n1 and n2 are
\* what the next two lines.next() calls give.  The result is the new header
\* context and the arguments of the process_file_change call, if one is made
loop_iteration(time, author, line, n1, n2) ==
    IF trim(line) = <<>>
    THEN [time |-> time, author |-> author, header |-> FALSE, event |-> None]
    ELSE IF Len(line) = 40
    THEN [time |-> IF n1 # None THEN unwrap_or(parse_i64(n1[1]), 0) ELSE time,
          author |-> IF n2 # None THEN n2[1] ELSE author,
          header |-> TRUE,
          event |-> None]
    ELSE LET stat == parse_stat_line(line)
         IN  [time |-> time, author |-> author, header |-> FALSE,
              event |-> IF stat = None THEN None
                        ELSE Some([path |-> stat[1], time |-> time, author |-> author])]

StreamInit ==
    /\ analyzer = "hotspots" /\ pc = "filter"
    /\ supplied \in {None} \cup {Some(p) : p \in SuppliedPaths}
    /\ path_filter = IF supplied = None THEN None
                     ELSE Some(normalized_path_filter(supplied[1]))
    /\ cwd_rel \in Cwds
    /\ path_filter = None => cwd_rel = None
    /\ tracked = Index
    /\ existing_files = {} /\ first = None
    /\ hotspots = EmptyMap
    /\ fed = [k \in HotPaths \X Authors |-> 0]
    /\ fed_times = [p \in HotPaths |-> {}]
    /\ fed_events = [e \in HotPaths \X Authors \X Times |-> 0]
    /\ hot_result = <<>>
    /\ effective = None
    /\ current_time = 0 /\ hot_current_author = <<>>
    /\ lines_read = 0
    /\ commit = None /\ n_records = 0 /\ n_events = 0
    /\ hot_commit_count = 0 /\ n_commits = 0
    /\ last_record = None /\ last_event = None /\ corrupt = FALSE
    /\ WhoInit
    /\ BusIdle
    /\ ViewIdle

\* analyze up to the parse loop: the effective filter, the early return when it
\* names nothing in the index, git ls-files
HotFilter ==
    /\ analyzer = "hotspots" /\ pc = "filter"
    /\ LET eff == IF path_filter = None THEN None
                  ELSE Some(relative_to_repo(path_filter[1], cwd_rel))
       IN  IF path_filter # None /\ ~error_unmatch(tracked, eff[1])
           THEN /\ hot_result' = <<>> /\ pc' = "done"
                /\ UNCHANGED <<effective, existing_files, first>>
           ELSE /\ effective' = eff
                /\ existing_files' = ls_files(tracked, eff)
                /\ first' \in IF existing_files' = {} THEN {None}
                             ELSE {Some(f) : f \in existing_files'}
                /\ pc' = "run"
                /\ UNCHANGED hot_result
    /\ UNCHANGED <<view_vars, analyzer, hotspots, fed, fed_times, fed_events, supplied, path_filter, cwd_rel,
                   tracked, current_time,
                   hot_current_author, lines_read, commit, n_records, n_events,
                   last_record, last_event, corrupt, hot_commit_count, n_commits,
                   who_vars, bus_vars>>

\* the loop reads the lines `line`, and after a hash line n1 and n2
StreamRead(line, n1, n2) ==
    /\ analyzer = "hotspots" /\ pc = "run"
    /\ lines_read < MaxLines
    /\ lines_read' = lines_read + 1
    /\ LET it == loop_iteration(current_time, hot_current_author, line, n1, n2)
       IN  /\ current_time' = it.time
           /\ hot_commit_count' = IF it.header THEN hot_commit_count + 1 ELSE hot_commit_count
           /\ hot_current_author' = it.author
           /\ IF it.event = None
              THEN UNCHANGED <<hotspots, n_events, last_event>>
              ELSE /\ hotspots' = process_file_change(hotspots, existing_files, first,
                                      it.event[1].path, it.event[1].time, it.event[1].author)
                   /\ n_events' = n_events + 1
                   /\ last_event' = it.event
    /\ UNCHANGED <<view_vars, analyzer, pc, existing_files, first, fed, fed_times, fed_events, hot_result, supplied,
                   path_filter, cwd_rel,
                   tracked, effective, who_vars, bus_vars>>

\* git prints the header of a commit: hash, author time, author name
StreamHeader(ts, name) ==
    /\ StreamRead(Hash40, Some(ts), Some(name))
    /\ commit' = Some([ts |-> ts, author |-> name])
    /\ corrupt' = (corrupt \/ parse_i64(ts) = None \/ name = <<>>)
    /\ n_commits' = n_commits + 1
    /\ UNCHANGED <<n_records, last_record>>

\* git prints a change record of that commit.  When its line is 40 bytes long
\* the loop calls lines.next() twice more: f1 and f2 are the paths of the
\* further change records of the commit these calls take, None at the end of
\* the stream
StreamStat(path, f1, f2) ==
    /\ commit # None
    /\ IF Len(stat_line(path)) = 40 THEN f1 = None => f2 = None
       ELSE f1 = None /\ f2 = None
    /\ StreamRead(stat_line(path),
                  IF f1 = None THEN None ELSE Some(stat_line(f1[1])),
                  IF f2 = None THEN None ELSE Some(stat_line(f2[1])))
    /\ n_records' = n_records + 1 + Len(f1) + Len(f2)
    /\ last_record' =
          Some([path |-> IF f2 # None THEN f2[1] ELSE IF f1 # None THEN f1[1] ELSE path,
                ts |-> commit[1].ts, author |-> commit[1].author,
                read_as |-> IF f2 # None THEN "author" ELSE IF f1 # None THEN "timestamp"
                            ELSE IF Len(stat_line(path)) = 40 THEN "header" ELSE "record"])
    /\ UNCHANGED <<commit, corrupt, n_commits>>

\* git prints the empty line between a header and its change records
StreamBlank ==
    /\ StreamRead(<<>>, None, None)
    /\ UNCHANGED <<commit, corrupt, n_commits, n_records, last_record>>

StreamNext ==
    \/ HotFilter
    \/ \E ts \in TsLines, name \in NameLines : StreamHeader(ts, name)
    \/ \E path \in StatPaths, f1 \in FollowingPaths, f2 \in FollowingPaths :
          StreamStat(path, f1, f2)
    \/ StreamBlank
    \/ HotFinish

StreamSpec == StreamInit /\ [][StreamNext]_vars

(***************************************************************************)
(* analyze_path on a single file, its blame output read record by record   *)
(***************************************************************************)
BlameInit ==
    /\ analyzer = "bus_factor" /\ pc = "start"
    /\ HotIdle
    /\ WhoInit
    /\ BusInit
    /\ ViewIdle
    /\ is_file(target)

\* one blame record, its source line remembered
BlameRead(author, code) == BlameStep(author, code) /\ blamed' = Append(blamed, code)

BlameNext ==
    \/ \E outcome \in FileOutcomes : PathFile(outcome)
    \/ \E author \in BlameAuthors, code \in CodeLines : BlameRead(author, code)
    \/ BlameEnd

BlameSpec == BlameInit /\ [][BlameNext]_vars

(***************************************************************************)
(* Rendering: format_hotspot_report, ContributorStats::format_last_touched *)
(* and ContributorStats::contribution_duration                             *)
(***************************************************************************)
\* .take(10)
TopEntries == 10
Lesser(a, b) == IF a < b THEN a ELSE b

\* the counts of the FileHotspot values rendered, around the thresholds
RenderHotspots == [commit_count : {15, 16, 20, 21}, contributor_count : {4, 5, 6, 7}]

Refactor == "Consider refactoring or adding more tests"
CodeOwner == "Consider assigning a code owner"
TechDebt == "Review for potential technical debt"

\* a chain that tests the contributors first
suggestion_lines_owner_first(h) ==
    IF h.contributor_count > 6 THEN <<CodeOwner>>
    ELSE IF h.commit_count > 20 /\ h.contributor_count > 4 THEN <<Refactor>>
    ELSE IF h.commit_count > 15 THEN <<TechDebt>>
    ELSE <<>>

\* the suggestion lines format_hotspot_report pushes for one entry
suggestion_lines(h) ==
    IF h.commit_count > 20 /\ h.contributor_count > 4 THEN <<Refactor>>
    ELSE IF h.contributor_count > 6 THEN <<CodeOwner>>
    ELSE IF h.commit_count > 15 THEN <<TechDebt>>
    ELSE <<>>

\* instants are counted in hours; Duration::num_days truncates toward zero
HoursPerDay == 24
num_days(duration) ==
    IF duration >= 0 THEN duration \div HoursPerDay ELSE -((-duration) \div HoursPerDay)

\* ContributorStats::format_last_touched with Local::now() = now
format_last_touched(now, last_commit) ==
    LET days == num_days(now - last_commit)
    IN  IF days = 0 THEN [n |-> 0, unit |-> "today"]
        ELSE IF days < 7 THEN [n |-> days, unit |-> "days ago"]
        ELSE IF days < 30 THEN [n |-> days \div 7, unit |-> "weeks ago"]
        ELSE IF days < 365 THEN [n |-> days \div 30, unit |-> "months ago"]
        ELSE [n |-> days \div 365, unit |-> "years ago"]

\* ContributorStats::contribution_duration; first_commit <= last_commit
contribution_duration(first_commit, last_commit) ==
    LET days == num_days(last_commit - first_commit)
        years == days \div 365
        months == (days % 365) \div 30
    IN  IF years > 0
        THEN IF months > 0
             THEN <<[n |-> years, unit |-> "years"], [n |-> months, unit |-> "months"]>>
             ELSE <<[n |-> years, unit |-> "years"]>>
        ELSE IF months > 0 THEN <<[n |-> months, unit |-> "months"]>>
        ELSE <<[n |-> days, unit |-> "days"]>>

\* the instant of a rendering, and the instants of the commits rendered
NowDay == MaxDays + 1
ClockHours == {0, 1, 12, 23}
Instant(day, hour) == day * HoursPerDay + hour
LastTouchedInputs ==
    {[now |-> Instant(NowDay, h), last_commit |-> Instant(NowDay - back, g)] :
        h \in {1, 23}, back \in (-1)..MaxDays, g \in ClockHours}
DurationInputs ==
    {[first_commit |-> Instant(0, h), last_commit |-> Instant(span, g)] :
        h \in {0, 23}, span \in 1..MaxDays, g \in {0, 23}}
      \cup {[first_commit |-> Instant(0, 0), last_commit |-> Instant(0, g)] : g \in {0, 23}}

ViewInit ==
    /\ analyzer = "none" /\ pc = "view"
    /\ HotIdle
    /\ WhoInit
    /\ BusIdle
    /\ view \in {"hotspot_report", "last_touched", "duration"}
    /\ view_in \in IF view = "hotspot_report" THEN 0..MaxHotspots
                    ELSE IF view = "last_touched" THEN LastTouchedInputs
                    ELSE DurationInputs
    /\ view_pos = 0
    /\ view_out = None

\* format_hotspot_report: one iteration of the loop, on the entry h
RenderEntry(h) ==
    /\ view = "hotspot_report" /\ pc = "view"
    /\ view_pos < Lesser(TopEntries, view_in)
    /\ view_pos' = view_pos + 1
    /\ view_out' = Some([index |-> view_pos + 1,
                         commit_count |-> h.commit_count,
                         contributor_count |-> h.contributor_count,
                         suggestions |-> suggestion_lines(h)])
    /\ UNCHANGED <<analyzer, pc, view, view_in, hot_vars, who_vars, bus_vars>>

\* format_hotspot_report returns: the slice is empty or the loop is over
RenderEnd ==
    /\ view = "hotspot_report" /\ pc = "view"
    /\ view_pos = Lesser(TopEntries, view_in)
    /\ pc' = "done"
    /\ UNCHANGED <<analyzer, view_vars, hot_vars, who_vars, bus_vars>>

LastTouched ==
    /\ view = "last_touched" /\ pc = "view"
    /\ view_out' = Some(format_last_touched(view_in.now, view_in.last_commit))
    /\ pc' = "done"
    /\ UNCHANGED <<analyzer, view, view_in, view_pos, hot_vars, who_vars, bus_vars>>

ContributionDuration ==
    /\ view = "duration" /\ pc = "view"
    /\ view_out' = Some(contribution_duration(view_in.first_commit, view_in.last_commit))
    /\ pc' = "done"
    /\ UNCHANGED <<analyzer, view, view_in, view_pos, hot_vars, who_vars, bus_vars>>

ViewNext ==
    \/ \E h \in RenderHotspots : RenderEntry(h)
    \/ RenderEnd
    \/ LastTouched
    \/ ContributionDuration

ViewSpec == ViewInit /\ [][ViewNext]_vars

(***************************************************************************)
(* The invocation                                                          *)
(***************************************************************************)
Init ==
    /\ analyzer \in {"bus_factor", "hotspots", "who_knows"}
    /\ pc = IF analyzer = "bus_factor" THEN "start"
            ELSE IF analyzer = "who_knows" THEN "check" ELSE "run"
    /\ IF analyzer = "hotspots" THEN HotInit ELSE HotIdle
    /\ WhoInit
    /\ IF analyzer = "bus_factor" THEN BusInit ELSE BusIdle
    /\ ViewIdle

Next ==
    \/ \E p \in HotPaths, a \in Authors, t \in Times : HotChange(p, a, t)
    \/ HotFinish
    \/ \E spawned \in BOOLEAN, log_ok \in BOOLEAN : WhoCheck(spawned, log_ok)
    \/ WhoNoHistory
    \/ \E parts \in LogLines : WhoLine(parts)
    \/ WhoFinish
    \/ \E outcome \in FileOutcomes : PathFile(outcome)
    \/ \E readable \in BOOLEAN : PathDir(readable)
    \/ DirDone
    \/ EntryError
    \/ \E outcome \in FileOutcomes, readable \in BOOLEAN : Entry(outcome, readable)
    \/ \E author \in BlameAuthors, code \in CodeLines : BlameRecord(author, code)
    \/ BlameEnd
    \/ BusFormat

Spec == Init /\ [][Next]_vars


(***************************************************************************)
(* Properties of the hotspot analyzer                                      *)
(***************************************************************************)
HotDone == analyzer = "hotspots" /\ pc = "done"
WhoDone == analyzer = "who_knows" /\ pc = "done" /\ who_ret = "ok"

\* the change events of the stream for path p, and their authors
Events(p) ==
    LET RECURSIVE Sum(_)
        Sum(S) == IF S = {} THEN 0
                  ELSE LET a == CHOOSE a \in S : TRUE IN fed[<<p, a>>] + Sum(S \ {a})
    IN  Sum(Authors)
EventAuthors(p) == {a \in Authors : fed[<<p, a>>] > 0}

Reported(p) == \E i \in 1..Len(hot_result) : hot_result[i].path = p
RankOf(p) == CHOOSE i \in 1..Len(hot_result) : hot_result[i].path = p

\* p is reported iff the stream holds an event for it, with the counts of its events
FoldedExactly(p) ==
    /\ Reported(p) <=> Events(p) >= 1
    /\ Reported(p) =>
          /\ hot_result[RankOf(p)].commit_count = Events(p)
          /\ hot_result[RankOf(p)].contributor_count = Cardinality(EventAuthors(p))
RankedAbove(p, q) == Reported(p) /\ Reported(q) /\ RankOf(p) < RankOf(q)

\* C1: every path in the sequence HotspotAnalyzer::analyze returns is a member of
\* the tracked-file set (the git ls-files listing); a path absent from the listing
\* is never reported, whatever history it has.
C1_OnlyTrackedReturned ==
    HotDone => \A i \in 1..Len(hot_result) : hot_result[i].path \in existing_files

SortedByCommitCount(seq) ==
    \A i \in 1..(Len(seq) - 1) : seq[i].commit_count >= seq[i + 1].commit_count

\* C7: the sequences returned by HotspotAnalyzer::analyze and by
\* analyze_file_expertise are sorted non-increasing by commit_count.
C7_SortedByCommitCount ==
    /\ HotDone => SortedByCommitCount(hot_result)
    /\ WhoDone => SortedByCommitCount(who_result)

\* a report of two files, the first with more commits than the second
C7_Witness ==
    /\ HotDone
    /\ Len(hot_result) = 2
    /\ hot_result[1].commit_count = 2
    /\ hot_result[2].commit_count = 1

BusFileOk == analyzer = "bus_factor" /\ file_ret # None /\ file_ret[1].ok

\* C8: a re-run of an analyzer on the same inputs returns the same sequence.  The
\* re-run folds the same records into the same map and iterates it in whatever
\* order its freshly seeded HashMap has: every such order must give the result
\* this run gave (the ranking, the order of equal commit counts, the dominant
\* author among equal line counts).
C8_Idempotent ==
    /\ HotDone => \A ord \in Orders(DOMAIN hotspots) :
                      hot_collect(hotspots, ord) = hot_result
    /\ WhoDone => \A ord \in Orders(DOMAIN contributors) :
                      who_collect(contributors, ord) = who_result
    /\ BusFileOk => \A ord \in Orders(DOMAIN file_ret[1].counts) :
                      file_result(file_ret[1].path, file_ret[1].counts,
                                  file_ret[1].total, ord).result = file_ret[1].result

(***************************************************************************)
(* Properties of the bus-factor analyzer                                   *)
(***************************************************************************)
BusRun == analyzer = "bus_factor"
Retained(p) == \E i \in 1..Len(results) : results[i].path = p

\* analyze_file's `for line in blame_output.lines()` over a whole blame output
\* (lines lo..hi of the output; the range is halved and the first half evaluated
\* before the second is begun, which keeps the evaluation shallow)
RECURSIVE blame_fold(_, _, _, _)
blame_fold(st, lines, lo, hi) ==
    IF lo > hi THEN st
    ELSE IF lo = hi THEN blame_line(st, lines[lo])
    ELSE LET mid == (lo + hi) \div 2
             half == blame_fold(st, lines, lo, mid)
         IN  IF half.total_lines >= 0 THEN blame_fold(half, lines, mid + 1, hi) ELSE half

\* the blame output of a file of 100 code lines, the first 90 by X, the last 10 by Y
ScenarioBlame ==
    [i \in 1..300 |->
        LET rec == ((i - 1) \div 3) + 1
            part == (i - 1) % 3
        IN  IF part = 0 THEN author_line(IF rec <= 90 THEN <<"X">> ELSE <<"Y">>)
            ELSE IF part = 1 THEN mail_line
            ELSE content_line(<<"x">>)]
ScenarioParsed ==
    blame_fold([current_author |-> <<>>, author_lines |-> EmptyMap, total_lines |-> 0,
                in_multiline_comment |-> FALSE], ScenarioBlame, 1, Len(ScenarioBlame))

\* scenarios A and B: the 90/10 file is kept at threshold 80 with dominant author X
\* and ownership 90, and dropped at threshold 95
C3_Scenario ==
    \A ord \in Orders(DOMAIN ScenarioParsed.author_lines) :
        LET ret == file_result(a_rs, ScenarioParsed.author_lines,
                               ScenarioParsed.total_lines, ord)
        IN  /\ ret.ok
            /\ ret.result.total_lines = 100
            /\ ret.result.dominant_author = <<"X">>
            /\ ret.result.ownership_percentage.num = 90 * ret.result.ownership_percentage.den
            /\ push_if_risky(<<>>, ret, 80) = <<ret.result>>
            /\ push_if_risky(<<>>, ret, 95) = <<>>

\* while analyze_path has not failed, every retained entry is at or above the
\* threshold and the file analysed last is retained iff its analysis succeeded
\* with a percentage at or above the threshold
C3_Inv ==
    BusRun /\ bus_ret # "Err(entry)" =>
        /\ \A i \in 1..Len(results) :
              results[i].ownership_percentage.num
                  >= threshold * results[i].ownership_percentage.den
        /\ file_ret # None =>
              (Retained(file_ret[1].path) <=>
                  /\ file_ret[1].ok
                  /\ file_ret[1].result.ownership_percentage.num
                         >= threshold * file_ret[1].result.ownership_percentage.den)

\* the result changes only by appending the file that was just analysed, or by
\* being dropped when analyze_path fails
C3_Step ==
    results' # results =>
        \/ bus_ret' = "Err(entry)" /\ results' = <<>>
        \/ /\ file_ret' # None /\ file_ret'[1].ok
           /\ results' = Append(results, file_ret'[1].result)

\* C3: analyze_path retains a file iff its analysis succeeded and its
\* ownership_percentage >= threshold (inclusive), for a single-file target and for
\* each file of a directory walk; the 90/10 file of 100 lines is returned with
\* dominant author X and ownership 90 at threshold 80 and not returned at 95.
C3_RetainedIffAtThreshold == C3_Scenario /\ []C3_Inv /\ [][C3_Step]_vars

\* a walk at threshold 100 that kept a file owned 100% and dropped the last
\* file, owned 50%
C3_Witness ==
    /\ BusRun /\ pc = "done" /\ bus_ret = "ok" /\ target = RootDir /\ threshold = 100
    /\ \E i \in 1..Len(results) :
          results[i].ownership_percentage.num = 100 * results[i].ownership_percentage.den
    /\ file_ret # None /\ file_ret[1].ok /\ ~Retained(file_ret[1].path)
    /\ file_ret[1].result.ownership_percentage.num * 2
           = 100 * file_ret[1].result.ownership_percentage.den

SumCounts(c) ==
    LET RECURSIVE Sum(_)
        Sum(S) == IF S = {} THEN 0
                  ELSE LET a == CHOOSE a \in S : TRUE IN c[a] + Sum(S \ {a})
    IN  Sum(DOMAIN c)

\* C4: every BusFactorResult of analyze_file has ownership_percentage =
\* (lines owned by dominant_author / total_lines) * 100 with 0 <= lines owned
\* <= total_lines, so the percentage lies in [0, 100].
C4_OwnershipFormula ==
    /\ BusFileOk =>
          LET r == file_ret[1].result
              c == file_ret[1].counts
          IN  /\ r.dominant_author \in DOMAIN c
              /\ r.total_lines = SumCounts(c)
              /\ r.total_lines > 0
              /\ 0 <= c[r.dominant_author] /\ c[r.dominant_author] <= r.total_lines
              /\ r.ownership_percentage.den = r.total_lines
              /\ r.ownership_percentage.num = c[r.dominant_author] * 100
    /\ BusRun => \A i \in 1..Len(results) :
          /\ results[i].ownership_percentage.den > 0
          /\ 0 <= results[i].ownership_percentage.num
          /\ results[i].ownership_percentage.num <= 100 * results[i].ownership_percentage.den

\* a file of two code lines by two authors: 50%
C4_Witness ==
    /\ BusFileOk
    /\ file_ret[1].result.total_lines = 2
    /\ file_ret[1].result.ownership_percentage = [num |-> 100, den |-> 2]

\* C5: a file with zero attributable lines makes analyze_file fail, no result is
\* created for it, and analyze_path returns no entry with total_lines = 0 or with
\* the placeholder author.
C5_NoEmptyResult ==
    BusRun =>
        /\ file_ret # None =>
              /\ file_ret[1].total = 0 => ~file_ret[1].ok /\ ~Retained(file_ret[1].path)
              /\ file_ret[1].ok =>
                    /\ file_ret[1].result.total_lines = file_ret[1].total
                    /\ file_ret[1].result.total_lines >= 1
                    /\ file_ret[1].result.dominant_author # Unknown
        /\ \A i \in 1..Len(results) :
              results[i].total_lines >= 1 /\ results[i].dominant_author # Unknown

\* a walk that kept a file and then met a blamed file of blank or comment lines only
C5_Witness ==
    /\ BusRun /\ pc = "done" /\ bus_ret = "ok" /\ target = RootDir
    /\ Len(results) >= 1
    /\ file_ret # None /\ ~file_ret[1].ok /\ file_ret[1].err = "No lines to analyze"

\* non-increasing by ownership_percentage, equal percentages non-increasing by
\* total_lines
SortedByOwnership(seq) ==
    \A i \in 1..(Len(seq) - 1) :
        LET p == seq[i].ownership_percentage
            q == seq[i + 1].ownership_percentage
        IN  /\ p.num * q.den >= q.num * p.den
            /\ p.num * q.den = q.num * p.den => seq[i].total_lines >= seq[i + 1].total_lines

SameEntries(s, t) ==
    /\ Len(s) = Len(t)
    /\ \A e \in {s[i] : i \in 1..Len(s)} \cup {t[i] : i \in 1..Len(t)} :
          Cardinality({i \in 1..Len(s) : s[i] = e}) = Cardinality({i \in 1..Len(t) : t[i] = e})

\* C6 as stated: the sequence analyze_path returns is sorted non-increasing by
\* ownership_percentage, ties non-increasing by total_lines.
C6_PathResultSorted ==
    BusRun /\ pc \in {"done", "reported"} /\ bus_ret = "ok" => SortedByOwnership(results)

\* C6: the sequence format_bus_factor_report renders holds the entries
\* analyze_path returned, sorted non-increasing by ownership_percentage, ties
\* non-increasing by total_lines; analyze_path itself returns them in walk order.
C6_ReportSorted ==
    BusRun /\ pc = "reported" =>
        /\ SortedByOwnership(report)
        /\ SameEntries(report, results)

\* a report of two files owned 100% where the walk met the smaller file first
C6_Witness ==
    /\ BusRun /\ pc = "reported"
    /\ Len(results) = 2
    /\ results[1].ownership_percentage.num = 100 * results[1].ownership_percentage.den
    /\ results[2].ownership_percentage.num = 100 * results[2].ownership_percentage.den
    /\ results[1].total_lines < results[2].total_lines
    /\ report = <<results[2], results[1]>>

IsMaxCount(c, a) == \A b \in DOMAIN c : c[b] <= c[a]

\* C9 as stated: the dominant author has the maximum line count, and among
\* several authors with that count it is the first one in iteration order.
C9_FirstMaxChosen ==
    BusFileOk =>
        LET c == file_ret[1].counts
            o == file_ret[1].order
            d == file_ret[1].result.dominant_author
        IN  /\ d \in DOMAIN c /\ IsMaxCount(c, d)
            /\ \E i \in 1..Len(o) :
                  o[i] = d /\ \A j \in 1..(i - 1) : ~IsMaxCount(c, o[j])

\* C9: the dominant author has the maximum line count over the authors of the
\* file, and among several authors with that count it is the last one in
\* iteration order.
C9_LastMaxChosen ==
    BusFileOk =>
        LET c == file_ret[1].counts
            o == file_ret[1].order
            d == file_ret[1].result.dominant_author
        IN  /\ d \in DOMAIN c /\ IsMaxCount(c, d)
            /\ file_ret[1].result.ownership_percentage.num = c[d] * 100
            /\ \E i \in 1..Len(o) :
                  o[i] = d /\ \A j \in (i + 1)..Len(o) : ~IsMaxCount(c, o[j])

\* X and Y own one line each, the map is iterated X then Y, and Y is chosen
C9_Witness ==
    /\ BusFileOk
    /\ file_ret[1].counts = (<<"X">> :> 1) @@ (<<"Y">> :> 1)
    /\ file_ret[1].order = <<<<"X">>, <<"Y">>>>
    /\ file_ret[1].result.dominant_author = <<"Y">>

\* the files under dir a walk reaches when the paths in failed cannot be read:
\* no hidden entry, no file of a skipped extension, nothing below a failed directory
RECURSIVE Reachable(_, _)
Reachable(dir, failed) ==
    UNION {LET name == Tree[dir][i]
               path == join(dir, name)
           IN  IF starts_with(name, <<".">>) \/ path \in failed THEN {}
               ELSE IF is_dir(path) THEN Reachable(path, failed)
               ELSE IF extension(path) # None /\ extension(path)[1] \in SKIPPED_EXTENSIONS
               THEN {}
               ELSE {path} : i \in 1..Len(Tree[dir])}

\* C10 as stated: in a directory analysis a failure on one item (a file, a
\* sub-directory, a directory entry) is not fatal: analyze_path returns success
\* and every other file of the tree was analysed, before or after the failure.
C10_ItemFailureNotFatal ==
    BusRun /\ pc = "done" /\ is_dir(target) /\ target \notin io_failed =>
        /\ bus_ret = "ok"
        /\ Reachable(target, io_failed) \subseteq visited

\* the regular files of the tree, and the part of a path below a walked root
TreeFiles ==
    {p \in UNION {{join(d, Tree[d][i]) : i \in DOMAIN Tree[d]} : d \in DOMAIN Tree} : is_file(p)}
Below(root, p) ==
    IF root = <<>> THEN p
    ELSE IF Len(p) > Len(root) + 1 /\ SubSeq(p, 1, Len(root) + 1) = root \o <<"/">>
    THEN SubSeq(p, Len(root) + 2, Len(p))
    ELSE <<>>
HasHiddenComponent(rel) ==
    \E i \in 1..Len(rel) : rel[i] = "." /\ (i = 1 \/ rel[i - 1] = "/")
ExcludedSuffixes ==
    {<<".","e","x","e">>, <<".","d","l","l">>, <<".","s","o">>, <<".","d","y","l","i","b">>,
     <<".","p","n","g">>, <<".","j","p","g">>, <<".","j","p","e","g">>, <<".","g","i","f">>,
     <<".","p","d","f">>}
HasExcludedSuffix(rel) ==
    \E e \in ExcludedSuffixes :
        Len(rel) > Len(e) /\ SubSeq(rel, Len(rel) - Len(e) + 1, Len(rel)) = e
\* the files the walk of root is to analyse
Analyzable(root) ==
    {p \in TreeFiles : /\ Below(root, p) # <<>>
                       /\ ~HasHiddenComponent(Below(root, p))
                       /\ ~HasExcludedSuffix(Below(root, p))}

\* C11: the directory walk analyses a file iff no component of its path below
\* the walked root starts with '.', (so it is not inside .git) and its extension
\* is not one of exe, dll, so, dylib, png, jpg, jpeg, gif, pdf; each such file is
\* analysed exactly once.  The "if" direction is for a walk in which every
\* directory and entry could be read.
C11_WalkFilter ==
    BusRun /\ is_dir(target) =>
        /\ visited \subseteq Analyzable(target)
        /\ calls = Cardinality(visited)
        /\ pc \in {"done", "reported"} /\ io_failed = {} => visited = Analyzable(target)

\* a finished walk of the root: a.rs, sub/d.rs and c.rs were analysed, .git/x.rs,
\* sub/.h.rs and p.png were not
C11_Witness ==
    /\ BusRun /\ pc = "done" /\ target = RootDir /\ io_failed = {}
    /\ calls = 3
    /\ visited = {a_rs, join(sub_dir, d_rs), c_rs}
    /\ TreeFiles \ visited = {join(git_dir, x_rs), join(sub_dir, h_rs), p_png}

(***************************************************************************)
(* Properties of HotspotAnalyzer::analyze read line by line (StreamSpec)   *)
(***************************************************************************)
\* no index entry is the path f or lies below the directory f
NoTrackedMatch(f) ==
    \A t \in tracked :
        t # f /\ ~(Len(t) > Len(f) + 1 /\ SubSeq(t, 1, Len(f) + 1) = f \o <<"/">>)

\* analyze returned Ok(vec![]) before its parse loop
ReturnedEmptyEarly ==
    /\ pc = "done" /\ hot_result = <<>>
    /\ lines_read = 0 /\ n_events = 0 /\ hotspots = EmptyMap

\* the filter as analyze normalizes and applies it: as it is when the current directory is
\* outside the repository or its root-relative path is a string prefix of the
\* filter, behind that path otherwise
EffectiveFilter ==
    IF cwd_rel = None THEN path_filter[1]
    ELSE IF Len(cwd_rel[1]) <= Len(path_filter[1])
            /\ SubSeq(path_filter[1], 1, Len(cwd_rel[1])) = cwd_rel[1]
    THEN path_filter[1]
    ELSE cwd_rel[1] \o <<"/">> \o path_filter[1]

\* C12: when a path filter is given and the filter, normalized to the path
\* relative to the repository root that analyze applies, names no tracked path,
\* analyze returns Ok with an empty sequence (no error, no panic) before any
\* history record is read or folded.
C12_NoMatchEmpty ==
    analyzer = "hotspots" /\ pc # "filter" /\ path_filter # None
        /\ NoTrackedMatch(EffectiveFilter) => ReturnedEmptyEarly

\* filter a.rs from the directory s: s/a.rs is not tracked, the result is empty
C12_Witness ==
    /\ analyzer = "hotspots" /\ path_filter = Some(a_rs) /\ cwd_rel = Some(s_dir)
    /\ a_rs \in tracked
    /\ NoTrackedMatch(EffectiveFilter)
    /\ ReturnedEmptyEarly

(***************************************************************************)
(* Properties of the who-knows analyzer                                    *)
(***************************************************************************)
WhoReturned == analyzer = "who_knows" /\ pc = "done"
\* git itself could not be started
SpawnErrors == {"Not a git repository", "Failed to execute git command"}

\* C13: analyze_file_expertise fails with path-not-found when the path does not
\* exist, else with not-under-version-control when no repository root lies above
\* the path, else with no-history when git log prints no record; a failed call
\* returns no contributor list, and a list is returned only for an existing path
\* under version control with at least one record.
C13_ChecksInOrder ==
    WhoReturned /\ who_ret \notin SpawnErrors =>
        /\ ~who_env.path_exists => who_ret = "Path does not exist"
        /\ who_env.path_exists /\ ~who_env.path_in_repo
              => who_ret = "Not inside a git repository"
        /\ who_ret = "No git history found"
              => who_env.path_exists /\ who_env.path_in_repo /\ log_lines = 0
        /\ who_ret # "ok" => who_result = <<>>
        /\ who_ret = "ok" => who_env.path_exists /\ who_env.path_in_repo /\ log_lines >= 1

\* the lines read so far that carry a record of author a
Authored(a) == {i \in 1..Len(who_fed) : Len(who_fed[i]) = 3 /\ who_fed[i][2] = a}
RecordTime(i) == parse_i64(who_fed[i][3])[1]
RecordedAuthors == {a \in Authors : Authored(a) # {}}
EveryTimeParsed == who_ret \notin {"Failed to parse timestamp", "Invalid timestamp"}

\* Scenario E: git log --follow prints five records of one author, newest first,
\* three under the new name of the file and two under the old one
ScenarioELog ==
    <<<<"h", "X", <<"5">>>>, <<"h", "X", <<"4">>>>, <<"h", "X", <<"3">>>>,
      <<"h", "X", <<"2">>>>, <<"h", "X", <<"1">>>>>>
C14_Scenario ==
    LET cs == who_fold(EmptyMap, ScenarioELog)
    IN  /\ DOMAIN cs = {"X"}
        /\ cs["X"].commit_count = 5
        /\ cs["X"].first_commit = 1
        /\ cs["X"].last_commit = 5
        /\ who_collect(cs, <<"X">>) = <<cs["X"]>>

C14_Inv ==
    analyzer = "who_knows" /\ EveryTimeParsed =>
        /\ DOMAIN contributors = RecordedAuthors
        /\ \A a \in DOMAIN contributors :
              /\ contributors[a].name = a
              /\ contributors[a].commit_count = Cardinality(Authored(a))
              /\ \E i \in Authored(a) : contributors[a].first_commit = RecordTime(i)
              /\ \A i \in Authored(a) : contributors[a].first_commit <= RecordTime(i)
              /\ \E i \in Authored(a) : contributors[a].last_commit = RecordTime(i)
              /\ \A i \in Authored(a) : contributors[a].last_commit >= RecordTime(i)
        /\ WhoDone =>
              /\ {who_result[k].name : k \in 1..Len(who_result)} = RecordedAuthors
              /\ \A k \in 1..Len(who_result) :
                    who_result[k] = contributors[who_result[k].name]

C14_Step ==
    \A a \in DOMAIN contributors :
        /\ a \in DOMAIN contributors'
        /\ \/ contributors'[a] = contributors[a]
           \/ /\ contributors'[a].commit_count = contributors[a].commit_count + 1
              /\ contributors'[a].first_commit <= contributors[a].first_commit
              /\ contributors'[a].last_commit >= contributors[a].last_commit

\* C14: for every author, the ContributorStats returned has commit_count equal to
\* the number of records of that author in the log, first_commit their least and
\* last_commit their greatest timestamp, in whatever order the records come; each
\* update raises the count by one and never shrinks [first_commit, last_commit];
\* five records of one author (two under the old name of a renamed file, three
\* under the new one) give commit_count = 5 and first_commit the oldest timestamp.
C14_CountsAndInterval == C14_Scenario /\ []C14_Inv /\ [][C14_Step]_vars
C14_Witness ==
    /\ WhoDone
    /\ who_fed = <<<<"h", "X", <<"2">>>>, <<"h", "X", <<"1">>>>, <<"h", "X", <<"1", "0">>>>>>
    /\ who_result = <<[name |-> "X", commit_count |-> 3, last_commit |-> 10, first_commit |-> 1]>>

WellFormedStats(st) == st.first_commit <= st.last_commit /\ st.commit_count >= 1

\* C15: every ContributorStats value, in the map while the log is read and in the
\* Vec returned, has first_commit <= last_commit and commit_count >= 1: right
\* after ContributorStats::new and after any number of updates with timestamps in
\* any order.
C15_StatsWellFormed ==
    /\ \A a \in DOMAIN contributors : WellFormedStats(contributors[a])
    /\ \A k \in 1..Len(who_result) : WellFormedStats(who_result[k])
C15_Witness ==
    /\ analyzer = "who_knows" /\ pc = "run"
    /\ DOMAIN contributors = {"X", "Y"}
    /\ contributors["Y"].commit_count = 1
    /\ contributors["Y"].first_commit = contributors["Y"].last_commit
    /\ contributors["X"].commit_count = 2
    /\ contributors["X"].first_commit = 1 /\ contributors["X"].last_commit = 10
    /\ RecordTime(CHOOSE i \in Authored("X") : \A j \in Authored("X") : i >= j) = 1

(***************************************************************************)
(* Properties of the fold of process_file_change                           *)
(***************************************************************************)
LiveCount(h) ==
    /\ h.contributor_count = Cardinality(DOMAIN h.contributors)
    /\ \A a \in DOMAIN h.contributors : h.contributors[a] >= 1

\* C16: in every reachable state, every FileHotspot of the aggregation map (and of
\* the Vec returned) has contributor_count equal to the number of keys of its
\* contributors map.
C16_ContributorCountLive ==
    /\ \A p \in DOMAIN hotspots : LiveCount(hotspots[p])
    /\ \A i \in 1..Len(hot_result) : LiveCount(hot_result[i])
C16_Witness ==
    /\ analyzer = "hotspots" /\ pc = "run"
    /\ \E p \in DOMAIN hotspots :
          /\ hotspots[p].commit_count = 3
          /\ hotspots[p].contributor_count = 2
          /\ DOMAIN hotspots[p].contributors = {"X", "Y"}
          /\ hotspots[p].contributors["X"] = 2

MaxTime(S) == CHOOSE t \in S : \A u \in S : u <= t

C17_Inv ==
    analyzer = "hotspots" =>
        /\ \A p \in DOMAIN hotspots :
              /\ fed_times[p] # {}
              /\ hotspots[p].last_modified = MaxTime(fed_times[p])
        /\ \A i \in 1..Len(hot_result) :
              hot_result[i].last_modified = MaxTime(fed_times[hot_result[i].path])

\* a step that changes the entry of p folded one event of p: its author is the
\* one whose event count rose
C17_Step ==
    /\ DOMAIN hotspots \subseteq DOMAIN hotspots'
    /\ \A p \in DOMAIN hotspots' :
          LET old_count == IF p \in DOMAIN hotspots THEN hotspots[p].commit_count ELSE 0
              old_conts == IF p \in DOMAIN hotspots THEN hotspots[p].contributors
                           ELSE EmptyMap
              new == hotspots'[p]
          IN  \/ p \in DOMAIN hotspots /\ new = hotspots[p]
              \/ /\ new.commit_count = old_count + 1
                 /\ \E a \in Authors :
                       /\ fed'[<<p, a>>] = fed[<<p, a>>] + 1
                       /\ DOMAIN new.contributors = DOMAIN old_conts \cup {a}
                       /\ new.contributors[a] = GetOr(old_conts, a, 0) + 1
                       /\ \A b \in DOMAIN old_conts \ {a} :
                             new.contributors[b] = old_conts[b]

\* C17: after every fold step, last_modified of each FileHotspot is the greatest
\* commit time of the events folded into it so far, in whatever order they
\* arrive, and each folded event raises commit_count and contributors[author] by
\* exactly one.
C17_LastModifiedIsMax == []C17_Inv /\ [][C17_Step]_vars
C17_Witness ==
    /\ analyzer = "hotspots" /\ pc = "run"
    /\ a_rs \in DOMAIN hotspots
    /\ fed_times[a_rs] = {1, 2}
    /\ hotspots[a_rs].last_modified = 2
    /\ hotspots[a_rs].commit_count = 3
    /\ hotspots[a_rs].contributors = ("X" :> 1) @@ ("Y" :> 2)

(***************************************************************************)
(* Properties of the blame parser read record by record (BlameSpec)        *)
(***************************************************************************)
\* the comment heuristic as described, over the source lines in order: a line
\* is counted when it is not blank, not inside a block comment, and begins
\* neither with // nor with /*; a block opens at a line beginning with /* and
\* lasts up to and including the line ending in */
Described(st, code) ==
    LET c == trim(code)
    IN  IF c = <<>> THEN st
        ELSE IF st.in_block \/ starts_with(c, <<"/","*">>)
        THEN [st EXCEPT !.in_block = ~ends_with(c, <<"*","/">>)]
        ELSE IF starts_with(c, <<"/","/">>) THEN st
        ELSE [st EXCEPT !.counted = @ + 1]
RECURSIVE DescribedFold(_, _)
DescribedFold(st, codes) ==
    IF codes = <<>> THEN st ELSE DescribedFold(Described(st, Head(codes)), Tail(codes))
DescribedTotal(codes) == DescribedFold([in_block |-> FALSE, counted |-> 0], codes).counted

\* C18 as stated: the blame parser counts a source line toward the total and its
\* author iff the line is non-empty after trimming and not excluded by the
\* comment heuristic (lines beginning with //, a block from a line beginning with
\* /* up to and including the line ending in */, lines beginning with * inside
\* such a block); a non-blank line outside any block that begins with neither //
\* nor /* is counted.
C18_CountedIffNotComment ==
    analyzer = "bus_factor" /\ pc = "blame" =>
        /\ total_lines = DescribedTotal(blamed)
        /\ SumCounts(author_lines) = total_lines

\* whether, by the lines read, a block comment is open: one was opened by a line
\* beginning with /* and no line from that one on has ended in */
BlockOpen == DescribedFold([in_block |-> FALSE, counted |-> 0], blamed).in_block

\* C26 as stated: in_multiline_comment is true after a line only while a block
\* comment opened by a line beginning with /* has not yet met its closing line
\* ending in */; a single line that begins with /* and ends with */ leaves the
\* parser outside a block, so the code lines after it are counted.
C26_FlagOnlyInsideBlock ==
    analyzer = "bus_factor" /\ pc = "blame" =>
        /\ in_multiline_comment => BlockOpen
        /\ ~BlockOpen /\ blamed # <<>> /\ trim(blamed[Len(blamed)]) = <<"x">>
              => total_lines >= 1

(***************************************************************************)
(* Properties of the commit-stream parser (StreamSpec)                     *)
(***************************************************************************)
\* the change record git printed last is one parse_stat_line accepts, so the
\* last process_file_change call was made for it
LastRecordParsed ==
    /\ last_record # None
    /\ last_record[1].read_as = "record"
    /\ parse_stat_line(stat_line(last_record[1].path)) # None

\* C19 as stated: in bulk-history parsing a malformed commit header (a timestamp
\* line that is not an integer, a missing author line) is fatal: analyze returns
\* no hotspot result computed from a stream that holds a corrupt header, and no
\* change record is folded with a substituted or stale timestamp.
C19_CorruptHeaderFatal ==
    analyzer = "hotspots" =>
        /\ ~(pc = "done" /\ corrupt)
        /\ LastRecordParsed /\ last_event # None =>
              Some(last_event[1].time) = parse_i64(last_record[1].ts)

\* C20 as stated: on a stream of well-formed headers the parser yields exactly one
\* change event per change record, carrying the author and timestamp of the
\* header that precedes the record; no record is dropped, duplicated or
\* attributed to another header.
C20_OneEventPerRecord ==
    analyzer = "hotspots" /\ ~corrupt =>
        /\ n_events = n_records
        /\ last_record # None =>
              /\ last_event # None
              /\ last_event[1].path = last_record[1].path
              /\ Some(last_event[1].time) = parse_i64(last_record[1].ts)
              /\ last_event[1].author = last_record[1].author

(***************************************************************************)
(* Properties of the path filter (StreamSpec)                              *)
(***************************************************************************)
\* the path the user names, relative to the repository root: an absolute path
\* with the root taken off, a relative path behind the current directory
MeantPath ==
    IF is_absolute(supplied[1]) THEN strip_prefix(supplied[1], repo_root)
    ELSE IF cwd_rel[1] = <<>> THEN supplied
    ELSE Some(cwd_rel[1] \o <<"/">> \o supplied[1])

\* C21 as stated: for every path inside the repository, supplied as an absolute
\* path or as the equivalent relative path, the filter the hotspot analyzer
\* applies is the path relative to the repository root, whatever the current
\* directory of the process (the root or a sub-directory of it).
C21_FilterIsRootRelative ==
    /\ analyzer = "hotspots" /\ pc # "filter"
    /\ supplied # None /\ cwd_rel # None
    /\ MeantPath # None /\ error_unmatch(tracked, MeantPath[1])
    => effective = MeantPath

(***************************************************************************)
(* Properties of the rendering (ViewSpec)                                  *)
(***************************************************************************)
Rendered == view_out[1]
HighChurn(h) == h.commit_count > 20 /\ h.contributor_count > 4

\* C22: format_hotspot_report attaches at most one suggestion to each rendered
\* entry: the refactor suggestion iff commit_count > 20 and contributor_count > 4;
\* otherwise the code-owner suggestion iff contributor_count > 6; otherwise the
\* technical-debt suggestion iff commit_count > 15; otherwise none.  Only the
\* first 10 entries of the slice are rendered.
C22_OneSuggestionTopTen ==
    view = "hotspot_report" =>
        /\ view_pos <= TopEntries /\ view_pos <= view_in
        /\ pc = "done" => view_pos = Lesser(TopEntries, view_in)
        /\ view_out = None <=> view_pos = 0
        /\ view_out # None =>
              LET has(x) == \E i \in 1..Len(Rendered.suggestions) : Rendered.suggestions[i] = x
              IN  /\ Rendered.index = view_pos
                  /\ Len(Rendered.suggestions) <= 1
                  /\ has(Refactor) <=> HighChurn(Rendered)
                  /\ has(CodeOwner) <=> ~HighChurn(Rendered) /\ Rendered.contributor_count > 6
                  /\ has(TechDebt) <=> /\ ~HighChurn(Rendered)
                                       /\ Rendered.contributor_count <= 6
                                       /\ Rendered.commit_count > 15
C22_Witness ==
    /\ view = "hotspot_report" /\ pc = "done"
    /\ view_in = 12 /\ view_pos = 10
    /\ Rendered.commit_count = 21 /\ Rendered.contributor_count = 7
    /\ Rendered.suggestions = <<Refactor>>

\* the calendar day an instant falls on, and the calendar-day difference between
\* the current instant and last_commit
CalendarDay(instant) == instant \div HoursPerDay
CalendarDaysAgo == CalendarDay(view_in.now) - CalendarDay(view_in.last_commit)

\* C23 as stated: the last-touched bucket comes from the calendar-day difference
\* between the current instant and last_commit: "today" iff last_commit falls on
\* the current calendar day, "N days ago" for a difference of 1 to 6 days, weeks
\* below 30 days, months below 365 days, years from 365 days on, with N >= 1 in
\* every bucket but "today".
C23_CalendarDayBuckets ==
    view = "last_touched" /\ view_out # None =>
        /\ Rendered.unit = "today" <=> CalendarDaysAgo = 0
        /\ CalendarDaysAgo \in 1..6 => Rendered = [n |-> CalendarDaysAgo, unit |-> "days ago"]
        /\ CalendarDaysAgo \in 7..29 => Rendered.unit = "weeks ago"
        /\ CalendarDaysAgo \in 30..364 => Rendered.unit = "months ago"
        /\ CalendarDaysAgo >= 365 => Rendered.unit = "years ago"
        /\ Rendered.unit # "today" => Rendered.n >= 1

(***************************************************************************)
(* Further properties of the fold of process_file_change (Spec)            *)
(***************************************************************************)
CountsAgree(h) ==
    /\ h.commit_count = SumCounts(h.contributors)
    /\ \A a \in DOMAIN h.contributors : h.contributors[a] >= 1
    /\ 1 <= h.contributor_count
    /\ h.contributor_count <= h.commit_count

\* C24: for every FileHotspot in every reachable state of the fold, commit_count
\* is the sum of the values of its contributors map, every value is at least 1,
\* and 1 <= contributor_count <= commit_count.
C24_CommitCountIsSum ==
    /\ \A p \in DOMAIN hotspots : CountsAgree(hotspots[p])
    /\ \A i \in 1..Len(hot_result) : CountsAgree(hot_result[i])
C24_Witness ==
    /\ analyzer = "hotspots" /\ pc = "run"
    /\ \E p \in DOMAIN hotspots :
          /\ hotspots[p].commit_count = 4
          /\ hotspots[p].contributor_count = 2
          /\ hotspots[p].contributors = ("X" :> 3) @@ ("Y" :> 1)

\* the events read so far folded in one fixed order, whatever order they came in
RECURSIVE FoldInFixedOrder(_, _)
FoldInFixedOrder(hs, bag) ==
    IF \A e \in DOMAIN bag : bag[e] = 0 THEN hs
    ELSE LET e == CHOOSE e \in DOMAIN bag : bag[e] > 0
         IN  FoldInFixedOrder(
                 process_file_change(hs, existing_files, first, e[1], e[3], e[2]),
                 [bag EXCEPT ![e] = @ - 1])

\* C25: the aggregation does not depend on the order of the events: the map
\* reached by folding the events read so far, in the order they came, is the map
\* any other order of the same multiset of (path, author, time) events gives with
\* the same tracked-file set.
C25_OrderIndependent ==
    analyzer = "hotspots" /\ pc = "run" =>
        hotspots = FoldInFixedOrder(EmptyMap, fed_events)
C25_Witness ==
    /\ analyzer = "hotspots" /\ pc = "run"
    /\ fed_events[<<a_rs, "X", 1>>] = 1
    /\ fed_events[<<a_rs, "Y", 2>>] = 1
    /\ fed_events[<<s_b_rs, "X", 2>>] = 1
    /\ fed_events[<<s_b_rs, "X", 1>>] = 1
    /\ DOMAIN hotspots = {a_rs, s_b_rs}
    /\ hotspots[a_rs].last_modified = 2
    /\ hotspots[s_b_rs].contributors = ("X" :> 2)

(***************************************************************************)
(* Further properties of the commit-stream parser (StreamSpec)             *)
(***************************************************************************)
\* C27 as stated: on a stream of well-formed headers the parser takes a line for a commit header only when it is a
\* commit-id line: a change-record line is never taken for a header, whatever its
\* length, and never consumed as the timestamp or author line of a header, so the
\* number of headers counted equals the number of commits in the stream.
C27_HeadersAreCommitIds ==
    analyzer = "hotspots" /\ ~corrupt =>
        /\ last_record # None => last_record[1].read_as = "record"
        /\ hot_commit_count = n_commits

RECURSIVE SumCommitCount(_)
SumCommitCount(stats) ==
    IF stats = <<>> THEN 0 ELSE Head(stats).commit_count + SumCommitCount(Tail(stats))

\* C28 as stated: when analyze_file_expertise returns success the list it returns
\* is not empty and the commit counts of its contributors add up to the number of
\* records git log printed, so that no record is dropped
C28_EveryRecordCounted ==
    WhoDone => /\ who_result # <<>>
               /\ SumCommitCount(who_result) = Len(who_fed)

\* a record of three fields whose timestamp is no integer or no instant
BadRecord(parts) ==
    Len(parts) = 3 /\ (~is_i64(parts[3]) \/ ~from_timestamp_is_some(parts[3]))
BadRecordRead == \E i \in 1..Len(who_fed) : BadRecord(who_fed[i])

\* C29: once the loop has read a three-field record whose timestamp is not an
\* integer or not a representable instant, the call has returned an error and
\* no contributor list, however many valid records were read before it; no line
\* after the bad record is read
C29_BadTimestampFailsCall ==
    analyzer = "who_knows" /\ BadRecordRead =>
        /\ pc = "done"
        /\ who_ret \in {"Failed to parse timestamp", "Invalid timestamp"}
        /\ who_result = <<>>
        /\ BadRecord(who_fed[Len(who_fed)])
        /\ \A i \in 1..(Len(who_fed) - 1) : ~BadRecord(who_fed[i])

\* two valid records were folded, then a record with a timestamp past the last
\* instant failed the call
C29_Witness ==
    /\ analyzer = "who_knows" /\ pc = "done"
    /\ who_ret = "Invalid timestamp"
    /\ Len(who_fed) = 3 /\ who_fed[3][3] = far_token
    /\ DOMAIN contributors # {}
    /\ who_result = <<>>

\* the whole days between the two commits of the duration rendered
SpanDays == num_days(view_in.last_commit - view_in.first_commit)
DurationPart(unit) == {i \in 1..Len(Rendered) : Rendered[i].unit = unit}

\* C30 as stated: for a span of d whole days contribution_duration reports
\* d div 365 years and (d mod 365) div 30 months, the month count it prints lies
\* between 1 and 11, and it prints days only when d < 30
C30_MonthsBelowTwelve ==
    view = "duration" /\ pc = "done" =>
        /\ \A i \in DurationPart("years") : Rendered[i].n = SpanDays \div 365
        /\ \A i \in DurationPart("months") :
              /\ Rendered[i].n = (SpanDays % 365) \div 30
              /\ Rendered[i].n \in 1..11
        /\ DurationPart("days") # {} => SpanDays < 30

=============================================================================
